---- MODULE Spec2Model ----
(***************************************************************************)
(* Model of the trend-cloud analysis core of khaiyuen/stock-analysis:      *)
(*   scripts/trend_cloud_detector.py  (projection, zoning, merging,        *)
(*                                     ranking, softmax weights)           *)
(*   scripts/trendline_detector.py    (time weights, iterative refiner,    *)
(*                                     pair selector)                      *)
(*   scripts/pivot_detector.py        (merge of overlapping pivots)        *)
(*                                                                         *)
(* Real-valued quantities are exact rationals [n |-> num, d |-> den] with  *)
(* d > 0, or integers in a fixed unit.  Floating-point rounding is not     *)
(* modelled.                                                               *)
(***************************************************************************)
EXTENDS Integers, Sequences, FiniteSets, TLC

VARIABLES
    \* ---- trend_cloud_detector.py ----
    cpc,                    \* position inside detect_trend_clouds
    trendlines,             \* the trendline list handed to detect_trend_clouds
    current_price,          \* stock_data['Price'].iloc[-1]
    cfg,                    \* the TrendCloudDetector's fields
    trendline_projections,  \* result of _generate_projections
    initial_zones,          \* the list _find_initial_convergence_zones returned
    convergence_zones,      \* the list find_convergence_points returned
    final_clouds,           \* the list create_final_trend_clouds returned
    \* ---- trendline_detector.py ----
    spc,                    \* position inside the trendline selector
    time_weighted,          \* TRUE: detect_time_weighted_trendlines_log,
                            \* FALSE: detect_powerful_trendlines_log
    pivots,                 \* the pivot pool handed to the selector
    max_lines,              \* the selector's max_lines argument
    min_weight,             \* the selector's min_weight argument
    linregress_raises,      \* the installed scipy rejects identical x values
    weighted_pivots,        \* result of apply_time_weights_to_pivots
    all_pairs,              \* the sorted seed pairs
    pair_pos,               \* number of pairs the for loop has taken
    used_trendline_pairs,   \* the selector's used-pair set
    found_trendlines,       \* the selector's local list `trendlines`
    top_trendlines,         \* the list the selector returns
    current_points,         \* the refiner's current_points
    iteration,              \* the refiner's iteration counter
    result,                 \* what the refiner returned to the selector
    \* ---- pivot_detector.py ----
    ppc,                    \* position inside combine_overlapping_pivots
    all_pivots,             \* the pooled candidates handed to the merge step
    combined,               \* the merge step's output list
    scan,                   \* the merge step's loop index i
    dpc,                    \* position inside detect_pivot_points_ultra_log
    bars,                   \* data['LogPrice'], one value per bar
    methods,                \* the enabled detection methods
    detected                \* the pivot list the detector returned

cloudVars == <<cpc, trendlines, current_price, cfg, trendline_projections,
               initial_zones, convergence_zones, final_clouds>>

selectVars == <<spc, time_weighted, pivots, max_lines, min_weight,
                linregress_raises, weighted_pivots, all_pairs, pair_pos,
                used_trendline_pairs, found_trendlines, top_trendlines,
                current_points, iteration, result>>

pivotVars == <<ppc, all_pivots, combined, scan>>

detectVars == <<dpc, bars, methods, detected>>

vars == <<cloudVars, selectVars, pivotVars, detectVars>>

\* Each specification below runs one of the three modules; the variables of
\* the other two stay as set here.
CloudIdle ==
    /\ cpc = "idle"
    /\ trendlines = <<>>
    /\ current_price = 0
    /\ cfg = <<>>
    /\ trendline_projections = <<>>
    /\ initial_zones = <<>>
    /\ convergence_zones = <<>>
    /\ final_clouds = <<>>

SelectIdle ==
    /\ spc = "idle"
    /\ time_weighted = FALSE
    /\ pivots = <<>>
    /\ max_lines = 0
    /\ min_weight = <<>>
    /\ linregress_raises = FALSE
    /\ weighted_pivots = <<>>
    /\ all_pairs = <<>>
    /\ pair_pos = 0
    /\ used_trendline_pairs = {}
    /\ found_trendlines = <<>>
    /\ top_trendlines = <<>>
    /\ current_points = <<>>
    /\ iteration = 0
    /\ result = <<>>

PivotIdle ==
    /\ ppc = "idle"
    /\ all_pivots = <<>>
    /\ combined = <<>>
    /\ scan = 0

DetectIdle ==
    /\ dpc = "idle"
    /\ bars = <<>>
    /\ methods = {}
    /\ detected = <<>>

(***************************************************************************)
(* Bounds of the model                                                     *)
(***************************************************************************)
MaxTrendlines == 3      \* longest trendline list handed to detect_trend_clouds

(***************************************************************************)
(* Arithmetic helpers                                                      *)
(***************************************************************************)
Abs(x) == IF x < 0 THEN -x ELSE x

Rat(n, d) == [n |-> n, d |-> d]
RatLess(a, b) == a.n * b.d < b.n * a.d
RatEq(a, b) == a.n * b.d = b.n * a.d
\* |a - b| <= t for rationals a, b and an integer t
RatWithin(a, b, t) == Abs(a.n * b.d - b.n * a.d) <= t * a.d * b.d

RECURSIVE SumSeq(_)
SumSeq(s) == IF s = <<>> THEN 0 ELSE Head(s) + SumSeq(Tail(s))

RECURSIVE Pow(_, _)
Pow(b, e) == IF e = 0 THEN 1 ELSE b * Pow(b, e - 1)

Range(s) == {s[i] : i \in DOMAIN s}

SeqMin(s) == CHOOSE x \in {s[i] : i \in DOMAIN s} : \A i \in DOMAIN s : x <= s[i]
SeqMax(s) == CHOOSE x \in {s[i] : i \in DOMAIN s} : \A i \in DOMAIN s : x >= s[i]

\* The ascending sequence of a finite set of integers.
SetToSeq(S) ==
    [k \in 1..Cardinality(S) |->
        CHOOSE x \in S : Cardinality({y \in S : y < x}) = k - 1]

\* Python's stable list.sort / sorted: Before(a, b) is "a's key sorts strictly
\* before b's"; elements with equal keys keep their order (also under
\* reverse=True).
StableSort(s, Before(_, _)) ==
    LET pos(i) == 1 + Cardinality({j \in DOMAIN s :
                        \/ Before(s[j], s[i])
                        \/ (~Before(s[i], s[j]) /\ j < i)})
    IN [k \in 1..Len(s) |-> s[CHOOSE i \in DOMAIN s : pos(i) = k]]

(***************************************************************************)
(* trend_cloud_detector.py                                                 *)
(***************************************************************************)

\* line 108 with the upper limit left out
AboveLowerLimitOnly(price, cp) == 7 * cp <= 10 * price

\* line 108: 0.7 * current_price <= projected_price <= 1.3 * current_price
ReasonableProjection(price, cp) ==
    7 * cp <= 10 * price /\ 10 * price <= 13 * cp

\* _generate_projections: trendlines in order, days 1..projection_days in order
generate_projections(tls, cp, projection_days) ==
    LET \* np.exp(log_slope * x_future + log_intercept) at x_future = x_now + day.
        \* A trendline is held as price_now = exp(log_slope * x_now + log_intercept)
        \* and growth = exp(log_slope), so the projection is price_now * growth^day.
        ProjectedPrice(tl, day) == tl.price_now * Pow(tl.growth, day)
    IN
    LET all == [k \in 1..(Len(tls) * projection_days) |->
                  LET t == ((k - 1) \div projection_days) + 1
                      day == ((k - 1) % projection_days) + 1
                  IN [trendline_idx |-> t - 1,
                      days_ahead |-> day,
                      projected_price |-> ProjectedPrice(tls[t], day),
                      weighted_strength |-> tls[t].weighted_strength]]
    IN SelectSeq(all, LAMBDA p : ReasonableProjection(p.projected_price, cp))

\* np.std(prices)^2 as a rational; prices of length 1 get std 0.1
PriceVariance(prices) ==
    IF Len(prices) > 1
    THEN LET n == Len(prices)
             s == SumSeq(prices)
             sq == SumSeq([i \in DOMAIN prices |-> prices[i] * prices[i]])
         IN Rat(n * sq - s * s, n * n)
    ELSE Rat(1, 100)

\* sum(p['weighted_strength'] for p in unique.values())
RECURSIVE StrengthSum(_, _)
StrengthSum(unique, keys) ==
    IF keys = {} THEN 0
    ELSE LET k == CHOOSE x \in keys : TRUE
         IN unique[k].weighted_strength + StrengthSum(unique, keys \ {k})

\* lines 180-184 with every projection kept under a key of its own
EveryProjection(converging_projections) ==
    [k \in {100 * converging_projections[i].trendline_idx
                + converging_projections[i].days_ahead :
                  i \in DOMAIN converging_projections} |->
        converging_projections[
            CHOOSE i \in DOMAIN converging_projections :
                100 * converging_projections[i].trendline_idx
                    + converging_projections[i].days_ahead = k]]

\* lines 180-184: unique_projections, the first projection of each trendline
UniqueProjections(converging_projections) ==
    LET tl_idxs == {converging_projections[i].trendline_idx :
                        i \in DOMAIN converging_projections}
    IN [t \in tl_idxs |->
           converging_projections[
               CHOOSE i \in DOMAIN converging_projections :
                   /\ converging_projections[i].trendline_idx = t
                   /\ \A j \in 1..(i - 1) :
                         converging_projections[j].trendline_idx # t]]

\* line 211 with >= for >
CloudTypeAtOrAbove(center, cp) ==
    IF center.n >= cp * center.d THEN "Resistance" ELSE "Support"

\* line 211: 'Resistance' if center_price > current_price else 'Support'
CloudType(center, cp) ==
    IF center.n > cp * center.d THEN "Resistance" ELSE "Support"

\* _create_convergence_zone
create_convergence_zone(converging_projections, unique_trendlines, cp) ==
    LET prices == [i \in DOMAIN converging_projections |->
                      converging_projections[i].projected_price]
        center_price == Rat(SumSeq(prices), Len(prices))
        unique_projections == UniqueProjections(converging_projections)
    IN [center_price |-> center_price,
        price_var |-> PriceVariance(prices),
        price_range |-> <<SeqMin(prices), SeqMax(prices)>>,
        unique_trendlines |-> Cardinality(DOMAIN unique_projections),
        total_projections |-> Len(converging_projections),
        total_weighted_strength |->
            StrengthSum(unique_projections, DOMAIN unique_projections),
        projections |-> converging_projections,
        unique_trendline_data |-> unique_projections,
        cloud_type |-> CloudType(center_price, cp),
        merged_from |-> 0]

\* The inner for-loop of _find_initial_convergence_zones (lines 142-155): the
\* positions of the sorted list collected around seed position i, from j on.
RECURSIVE converging_scan(_, _, _, _, _)
converging_scan(sp, i, j, used, tol) ==
    IF j > Len(sp) THEN <<>>
    ELSE IF sp[j].orig_idx \in used THEN converging_scan(sp, i, j + 1, used, tol)
    ELSE LET price_diff == Abs(sp[i].proj.projected_price - sp[j].proj.projected_price)
             different_trendlines ==
                 sp[i].proj.trendline_idx # sp[j].proj.trendline_idx
         IN IF price_diff <= tol /\ different_trendlines
            THEN <<j>> \o converging_scan(sp, i, j + 1, used, tol)
            ELSE IF price_diff > tol
            THEN <<>>
            ELSE converging_scan(sp, i, j + 1, used, tol)

EnoughTrendlinesOffByOne(unique_trendlines, min_trendlines) ==
    Cardinality(unique_trendlines) >= min_trendlines - 1

\* len(unique_trendlines) >= self.min_trendlines (line 160)
EnoughTrendlines(unique_trendlines, min_trendlines) ==
    Cardinality(unique_trendlines) >= min_trendlines

\* The outer loop of _find_initial_convergence_zones (lines 134-165).
RECURSIVE zone_sweep(_, _, _, _, _, _, _)
zone_sweep(sp, i, used, zones, cp, tol, min_trendlines) ==
    IF i > Len(sp) THEN zones
    ELSE IF sp[i].orig_idx \in used
    THEN zone_sweep(sp, i + 1, used, zones, cp, tol, min_trendlines)
    ELSE LET members == <<i>> \o converging_scan(sp, i, i + 1, used, tol)
             converging_projections == [k \in DOMAIN members |-> sp[members[k]].proj]
             converging_indices == {sp[members[k]].orig_idx : k \in DOMAIN members}
             unique_trendlines == {converging_projections[k].trendline_idx :
                                       k \in DOMAIN converging_projections}
         IN IF EnoughTrendlines(unique_trendlines, min_trendlines)
            THEN zone_sweep(sp, i + 1, used \cup converging_indices,
                            Append(zones, create_convergence_zone(
                                converging_projections, unique_trendlines, cp)),
                            cp, tol, min_trendlines)
            ELSE zone_sweep(sp, i + 1, used, zones, cp, tol, min_trendlines)

\* _find_initial_convergence_zones
find_initial_convergence_zones(projs, cp, tol, min_trendlines) ==
    LET \* sorted(enumerate(trendline_projections), key=projected_price)
        SortedProjections(list) ==
            StableSort([k \in DOMAIN projs |-> [orig_idx |-> k - 1, proj |-> list[k]]],
                       LAMBDA a, b : a.proj.projected_price < b.proj.projected_price)
    IN
    zone_sweep(SortedProjections(projs), 1, {}, <<>>, cp, tol, min_trendlines)

MergedPriceRangeOfFirstZone(zones_to_merge, all_prices) ==
    zones_to_merge[1].price_range

\* [min(all_prices), max(all_prices)] (line 289)
MergedPriceRange(zones_to_merge, all_prices) ==
    <<SeqMin(all_prices), SeqMax(all_prices)>>

\* lines 267-268 with the projections of the first zone only
FirstZoneProjections(zones) == zones[1].projections

\* lines 267-268: all_projections.extend(zone['projections']) over the zones in order
RECURSIVE MergedProjections(_)
MergedProjections(zones) ==
    IF zones = <<>> THEN <<>>
    ELSE Head(zones).projections \o MergedProjections(Tail(zones))

\* _create_merged_zone
create_merged_zone(zones_to_merge) ==
    LET \* all_unique_trendlines.update(zone['unique_trendline_data']) over the zones
        \* in order: a later zone's entry replaces an earlier one's
        RECURSIVE MergedUniqueData(_)
        MergedUniqueData(zones) ==
            IF zones = <<>> THEN <<>>
            ELSE LET last == zones[Len(zones)].unique_trendline_data
                     rest == MergedUniqueData(SubSeq(zones, 1, Len(zones) - 1))
                 IN [t \in (DOMAIN rest) \cup (DOMAIN last) |->
                        IF t \in DOMAIN last THEN last[t] ELSE rest[t]]
    IN
    LET all_projections == MergedProjections(zones_to_merge)
        all_unique_trendlines == MergedUniqueData(zones_to_merge)
        all_prices == [i \in DOMAIN all_projections |->
                          all_projections[i].projected_price]
    IN [center_price |-> Rat(SumSeq(all_prices), Len(all_prices)),
        price_var |-> PriceVariance(all_prices),
        price_range |-> MergedPriceRange(zones_to_merge, all_prices),
        unique_trendlines |-> Cardinality(DOMAIN all_unique_trendlines),
        total_projections |-> Len(all_projections),
        total_weighted_strength |->
            StrengthSum(all_unique_trendlines, DOMAIN all_unique_trendlines),
        projections |-> all_projections,
        unique_trendline_data |-> all_unique_trendlines,
        cloud_type |-> zones_to_merge[1].cloud_type,
        merged_from |-> Len(zones_to_merge)]

ShouldMergeStrict(zone1, zone2, merge_threshold) ==
    /\ ~RatEq(Rat(Abs(zone1.center_price.n * zone2.center_price.d
                      - zone2.center_price.n * zone1.center_price.d),
                  zone1.center_price.d * zone2.center_price.d),
              Rat(merge_threshold, 1))
    /\ RatWithin(zone1.center_price, zone2.center_price, merge_threshold)
    /\ zone1.cloud_type = zone2.cloud_type

\* price_diff <= merge_threshold and same_type (lines 237-240)
ShouldMerge(zone1, zone2, merge_threshold) ==
    /\ RatWithin(zone1.center_price, zone2.center_price, merge_threshold)
    /\ zone1.cloud_type = zone2.cloud_type

\* The loop of _merge_nearby_zones (lines 225-252) over the sorted list zs.
RECURSIVE merge_sweep(_, _, _, _, _)
merge_sweep(zs, i, skip_indices, merged_zones, merge_threshold) ==
    IF i > Len(zs) THEN merged_zones
    ELSE IF i \in skip_indices
    THEN merge_sweep(zs, i + 1, skip_indices, merged_zones, merge_threshold)
    ELSE LET merge_indices ==
                 {i} \cup {j \in (i + 1)..Len(zs) :
                              /\ j \notin skip_indices
                              /\ ShouldMerge(zs[i], zs[j], merge_threshold)}
             order == SetToSeq(merge_indices)
             zones_to_merge == [k \in DOMAIN order |-> zs[order[k]]]
         IN IF Len(zones_to_merge) > 1
            THEN merge_sweep(zs, i + 1, skip_indices \cup merge_indices,
                             Append(merged_zones, create_merged_zone(zones_to_merge)),
                             merge_threshold)
            ELSE merge_sweep(zs, i + 1, skip_indices \cup {i},
                             Append(merged_zones, zs[i]), merge_threshold)

\* initial_zones.sort(key=center_price): the caller's list, sorted in place
SortByCenter(zones) ==
    StableSort(zones, LAMBDA a, b : RatLess(a.center_price, b.center_price))

\* lines 255-256 left out: the zones stay in the order of the merge sweep
KeepSweepOrder(zones) == zones

SortByStrength(zones) ==
    LET \* key (total_weighted_strength, convergence_quality), reverse=True
        RanksBefore(a, b) ==
            LET \* convergence_quality = tightness * n * (strength / n) = strength / (1 + std):
                \* between zones of equal total_weighted_strength the quality is greater
                \* exactly when the strength is positive and the deviation smaller.
                QualityGreater(x, y) ==
                    /\ x.total_weighted_strength = y.total_weighted_strength
                    /\ x.total_weighted_strength > 0
                    /\ RatLess(x.price_var, y.price_var)
            IN
            \/ a.total_weighted_strength > b.total_weighted_strength
            \/ QualityGreater(a, b)
    IN  StableSort(zones, RanksBefore)

\* _merge_nearby_zones: the returned list
merge_nearby_zones(zones, merge_threshold) ==
    IF zones = <<>> THEN <<>>
    ELSE SortByStrength(merge_sweep(SortByCenter(zones), 1, {}, <<>>, merge_threshold))

NormaliseByMax(exp_logits) ==
    [i \in DOMAIN exp_logits |-> Rat(exp_logits[i], SeqMax(exp_logits))]

\* exp_logits / np.sum(exp_logits) (line 327)
Normalise(exp_logits) ==
    [i \in DOMAIN exp_logits |-> Rat(exp_logits[i], SumSeq(exp_logits))]

\* softmax weights of create_final_trend_clouds (lines 319-336) for the
\* strengths of the kept zones; temperature is a positive integer
softmax_weights(strengths, temperature) ==
    LET \* np.exp(x) for x = -n/d in [-1, 0], to second order: 1 + x + x^2/2, as the
        \* numerator over the common denominator 2 d^2
        ExpNum(n, d) == d * d + (d - n) * (d - n)
    IN
    IF Len(strengths) > 1
    THEN LET mx == SeqMax(strengths)
         IN IF mx > 0
            THEN LET d == mx * temperature
                     \* softmax_logits - np.max(softmax_logits) = -(mx - s) / d
                     exp_logits == [i \in DOMAIN strengths |->
                                       ExpNum(mx - strengths[i], d)]
                 IN Normalise(exp_logits)
            ELSE [i \in DOMAIN strengths |-> Rat(1, Len(strengths))]
    ELSE [i \in DOMAIN strengths |-> Rat(1, 1)]

\* create_final_trend_clouds: the returned list (the zone records themselves,
\* with 'softmax_weight' and 'cloud_id' set on them)
create_final_trend_clouds(zones, max_clouds, temperature) ==
    LET \* f"{zone_type}{i}" with zone_type = cloud_type[0]
        CloudId(zone, i) == <<IF zone.cloud_type = "Resistance" THEN "R" ELSE "S", i>>
    IN
    IF zones = <<>> THEN <<>>
    ELSE LET top_zones == SubSeq(zones, 1, IF max_clouds < Len(zones)
                                            THEN max_clouds ELSE Len(zones))
             weights == softmax_weights(
                 [i \in DOMAIN top_zones |-> top_zones[i].total_weighted_strength],
                 temperature)
         IN [i \in DOMAIN top_zones |->
                top_zones[i] @@ [softmax_weight |-> weights[i],
                                 cloud_id |-> CloudId(top_zones[i], i - 1)]]

(***************************************************************************)
(* detect_trend_clouds as a state machine                                  *)
(***************************************************************************)
\* The selector hands its trendlines over sorted by weighted_strength, descending.
RankedTrendlineLists ==
    LET \* Flat trendlines priced inside the +/-30% band of the current price, and
        \* doubling ones that leave it within the projection horizon.
        Trendlines ==
            [price_now : 7..11, growth : {1}, weighted_strength : {0, 1}]
            \cup [price_now : 4..5, growth : {2}, weighted_strength : {0, 1}]
    IN
    {tls \in UNION {[1..n -> Trendlines] : n \in 0..MaxTrendlines} :
        \A i \in 1..(Len(tls) - 1) :
            tls[i].weighted_strength >= tls[i + 1].weighted_strength}

Configs ==
    [projection_days : {2},
     convergence_tolerance : {0, 1},
     merge_threshold : {1, 2},
     min_trendlines : {1, 2},
     max_clouds : {1, 3},
     temperature : {1, 2}]

CloudInit ==
    /\ cpc = "start"
    /\ trendlines \in RankedTrendlineLists
    /\ current_price = 10
    /\ cfg \in Configs
    /\ trendline_projections = <<>>
    /\ initial_zones = <<>>
    /\ convergence_zones = <<>>
    /\ final_clouds = <<>>
    /\ SelectIdle
    /\ PivotIdle
    /\ DetectIdle

\* find_convergence_points, lines 64-65: no trendlines
ReturnNoTrendlines ==
    /\ cpc = "start"
    /\ trendlines = <<>>
    /\ convergence_zones' = <<>>
    /\ cpc' = "converged"
    /\ UNCHANGED <<trendlines, current_price, cfg, trendline_projections,
                   initial_zones, final_clouds,
                   selectVars, pivotVars, detectVars>>

\* find_convergence_points, lines 67-73
GenerateProjections ==
    /\ cpc = "start"
    /\ trendlines # <<>>
    /\ trendline_projections' =
           generate_projections(trendlines, current_price, cfg.projection_days)
    /\ cpc' = "projected"
    /\ UNCHANGED <<trendlines, current_price, cfg, initial_zones,
                   convergence_zones, final_clouds,
                   selectVars, pivotVars, detectVars>>

\* find_convergence_points, lines 75-76
ReturnTooFewProjections ==
    /\ cpc = "projected"
    /\ Len(trendline_projections) < cfg.min_trendlines
    /\ convergence_zones' = <<>>
    /\ cpc' = "converged"
    /\ UNCHANGED <<trendlines, current_price, cfg, trendline_projections,
                   initial_zones, final_clouds,
                   selectVars, pivotVars, detectVars>>

\* find_convergence_points, lines 78-81
FindInitialConvergenceZones ==
    /\ cpc = "projected"
    /\ Len(trendline_projections) >= cfg.min_trendlines
    /\ initial_zones' = find_initial_convergence_zones(
           trendline_projections, current_price,
           cfg.convergence_tolerance, cfg.min_trendlines)
    /\ cpc' = "zoned"
    /\ UNCHANGED <<trendlines, current_price, cfg, trendline_projections,
                   convergence_zones, final_clouds,
                   selectVars, pivotVars, detectVars>>

\* find_convergence_points, lines 83-86: the merge sorts initial_zones in place
MergeNearbyZones ==
    /\ cpc = "zoned"
    /\ initial_zones' = SortByCenter(initial_zones)
    /\ convergence_zones' = merge_nearby_zones(initial_zones, cfg.merge_threshold)
    /\ cpc' = "converged"
    /\ UNCHANGED <<trendlines, current_price, cfg, trendline_projections,
                   final_clouds,
                   selectVars, pivotVars, detectVars>>

\* detect_trend_clouds, lines 383-386
CreateFinalTrendClouds ==
    /\ cpc = "converged"
    /\ final_clouds' = create_final_trend_clouds(
           convergence_zones, cfg.max_clouds, cfg.temperature)
    \* top_zones holds the caller's zone records: the new keys show in its list
    /\ convergence_zones' =
           [i \in DOMAIN convergence_zones |->
               IF i <= Len(final_clouds') THEN final_clouds'[i]
               ELSE convergence_zones[i]]
    \* a zone the merge step kept unmerged is the same record in initial_zones
    /\ initial_zones' =
           [i \in DOMAIN initial_zones |->
               IF \E k \in DOMAIN final_clouds' :
                      convergence_zones[k] = initial_zones[i]
               THEN final_clouds'[CHOOSE k \in DOMAIN final_clouds' :
                                     convergence_zones[k] = initial_zones[i]]
               ELSE initial_zones[i]]
    /\ cpc' = "done"
    /\ UNCHANGED <<trendlines, current_price, cfg, trendline_projections,
                   selectVars, pivotVars, detectVars>>

CloudNext ==
    \/ ReturnNoTrendlines
    \/ GenerateProjections
    \/ ReturnTooFewProjections
    \/ FindInitialConvergenceZones
    \/ MergeNearbyZones
    \/ CreateFinalTrendClouds

SpecCloud == CloudInit /\ [][CloudNext]_vars

(***************************************************************************)
(* Claims about trend_cloud_detector.py, checked under SpecCloud           *)
(***************************************************************************)
\* C1: every trend cloud returned by detect_trend_clouds has
\* unique_trendlines >= the configured min_trendlines.
C1_MinTrendlines ==
    cpc = "done" =>
        \A i \in DOMAIN final_clouds :
            final_clouds[i].unique_trendlines >= cfg.min_trendlines

\* Under min_trendlines = 2 a cloud was returned while a seed whose zone had
\* a single trendline was turned down (its projection is in no cloud).
C1_Witness ==
    /\ cpc = "done"
    /\ cfg.min_trendlines = 2
    /\ Len(final_clouds) >= 1
    /\ final_clouds[1].unique_trendlines >= 2
    /\ Len(trendline_projections) > final_clouds[1].total_projections

\* C2: every trend cloud returned, merged or not, has center_price the mean
\* and price_range the min/max of its member projection prices, and
\* price_range[0] <= center_price <= price_range[1].
C2_CenterInRange ==
    LET ProjectionPrices(zone) ==
            [i \in DOMAIN zone.projections |-> zone.projections[i].projected_price]
    IN
    cpc = "done" =>
        \A i \in DOMAIN final_clouds :
            LET z == final_clouds[i]
                prices == ProjectionPrices(z)
            IN /\ RatEq(z.center_price, Rat(SumSeq(prices), Len(prices)))
               /\ z.price_range = <<SeqMin(prices), SeqMax(prices)>>
               /\ z.price_range[1] * z.center_price.d <= z.center_price.n
               /\ z.center_price.n <= z.price_range[2] * z.center_price.d

\* A merged cloud whose center lies strictly inside its range, next to an
\* unmerged cloud.
C2_Witness ==
    /\ cpc = "done"
    /\ \E i, j \in DOMAIN final_clouds :
          LET z == final_clouds[i]
          IN /\ z.merged_from >= 2
             /\ z.price_range[1] * z.center_price.d < z.center_price.n
             /\ z.center_price.n < z.price_range[2] * z.center_price.d
             /\ final_clouds[j].merged_from = 0

\* C3 as stated: in the list the merge step returns, no two zones with the
\* same cloud_type have centers within merge_threshold of each other.
C3_NoNearbySameType ==
    cpc = "converged" =>
        \A i, j \in DOMAIN convergence_zones :
            (i # j /\ convergence_zones[i].cloud_type = convergence_zones[j].cloud_type)
                => ~RatWithin(convergence_zones[i].center_price,
                              convergence_zones[j].center_price,
                              cfg.merge_threshold)

\* C3 amended: no two zones that the merge step returned unmerged (without
\* merged_from) and that have the same cloud_type have centers within
\* merge_threshold of each other.
C3_NoNearbyUnmerged ==
    cpc = "converged" =>
        \A i, j \in DOMAIN convergence_zones :
            (/\ i # j
             /\ convergence_zones[i].merged_from = 0
             /\ convergence_zones[j].merged_from = 0
             /\ convergence_zones[i].cloud_type = convergence_zones[j].cloud_type)
                => ~RatWithin(convergence_zones[i].center_price,
                              convergence_zones[j].center_price,
                              cfg.merge_threshold)

\* The merge step returned two unmerged zones of one type beside a merged one.
C3_Witness ==
    /\ cpc = "converged"
    /\ \E i, j, k \in DOMAIN convergence_zones :
          /\ i # j
          /\ convergence_zones[i].merged_from = 0
          /\ convergence_zones[j].merged_from = 0
          /\ convergence_zones[i].cloud_type = convergence_zones[j].cloud_type
          /\ convergence_zones[k].merged_from >= 2

C12_TooFewTrendlinesNoClouds ==
    Len(trendlines) < cfg.min_trendlines =>
        /\ initial_zones = <<>>
        /\ convergence_zones = <<>>
        /\ final_clouds = <<>>

\* One trendline under min_trendlines = 2 gave as many projections as the
\* floor asks trendlines, so the zone search ran, and the run ended.
C12_Witness ==
    /\ cpc = "done"
    /\ Len(trendlines) = 1
    /\ cfg.min_trendlines = 2
    /\ Len(trendline_projections) >= cfg.min_trendlines
    /\ final_clouds = <<>>

CountsEachTrendlineOnce(zone) ==
    LET \* The distinct trendline indices among a zone's member projections.
        MemberTrendlines(z) ==
            {z.projections[i].trendline_idx : i \in DOMAIN z.projections}
        \* The sum of trendline.get('weighted_strength', 0) over the trendlines idxs.
        RECURSIVE TrendlineStrengthSum(_)
        TrendlineStrengthSum(idxs) ==
            IF idxs = {} THEN 0
            ELSE LET t == CHOOSE x \in idxs : TRUE
                 IN trendlines[t + 1].weighted_strength + TrendlineStrengthSum(idxs \ {t})
    IN
    /\ zone.unique_trendlines = Cardinality(MemberTrendlines(zone))
    /\ zone.total_weighted_strength = TrendlineStrengthSum(MemberTrendlines(zone))

\* C16: for every zone, initial or merged, unique_trendlines is the number
\* of distinct trendline indices among its member projections and
\* total_weighted_strength the sum of weighted_strength over those
\* trendlines, each counted once however many day-offsets it contributes.
C16_UniqueTrendlineCredit ==
    /\ \A i \in DOMAIN initial_zones : CountsEachTrendlineOnce(initial_zones[i])
    /\ \A i \in DOMAIN convergence_zones :
           CountsEachTrendlineOnce(convergence_zones[i])
    /\ \A i \in DOMAIN final_clouds : CountsEachTrendlineOnce(final_clouds[i])

\* An initial zone and a merged zone each hold more projections than
\* trendlines, with a positive strength.
C16_Witness ==
    /\ cpc = "converged"
    /\ \E i \in DOMAIN initial_zones :
          /\ initial_zones[i].total_projections > initial_zones[i].unique_trendlines
          /\ initial_zones[i].unique_trendlines >= 2
          /\ initial_zones[i].total_weighted_strength > 0
    /\ \E i \in DOMAIN convergence_zones :
          /\ convergence_zones[i].merged_from >= 2
          /\ convergence_zones[i].total_projections
                 > convergence_zones[i].unique_trendlines
          /\ convergence_zones[i].total_weighted_strength > 0

\* C17: the clustering stage does not mutate its inputs: the zone list
\* handed to _merge_nearby_zones and the one handed to
\* create_final_trend_clouds are the same after the call, in order and in
\* every record's fields.
C17_InputsUnchanged ==
    [][/\ cpc = "zoned" => initial_zones' = initial_zones
       /\ cpc = "converged" => convergence_zones' = convergence_zones]_vars

\* C23: only projections with 0.7 * current_price <= projected_price <=
\* 1.3 * current_price enter zoning, so every member projection, the
\* center_price and both price_range bounds of every zone and every emitted
\* cloud lie within 30% of the current price.
C23_WithinThirtyPercent ==
    LET InBand(price) == 7 * current_price <= 10 * price
                             /\ 10 * price <= 13 * current_price
        RatInBand(r) == 7 * current_price * r.d <= 10 * r.n
                            /\ 10 * r.n <= 13 * current_price * r.d
        ZoneInBand(zone) ==
            /\ \A k \in DOMAIN zone.projections :
                   InBand(zone.projections[k].projected_price)
            /\ RatInBand(zone.center_price)
            /\ InBand(zone.price_range[1])
            /\ InBand(zone.price_range[2])
    IN /\ \A k \in DOMAIN trendline_projections :
              InBand(trendline_projections[k].projected_price)
       /\ \A k \in DOMAIN initial_zones : ZoneInBand(initial_zones[k])
       /\ \A k \in DOMAIN convergence_zones : ZoneInBand(convergence_zones[k])
       /\ \A k \in DOMAIN final_clouds : ZoneInBand(final_clouds[k])

\* A cloud has been emitted although a projection of one of the trendlines
\* was discarded for leaving the band.
C23_Witness ==
    /\ cpc = "done"
    /\ final_clouds # <<>>
    /\ Len(trendline_projections) < Len(trendlines) * cfg.projection_days
    /\ \E k \in DOMAIN final_clouds : final_clouds[k].total_projections >= 2

\* C24: detect_trend_clouds returns at most max_clouds clouds, ordered by
\* (total_weighted_strength, convergence_quality) descending, and the cloud
\* at 0-based rank i carries cloud_id = first letter of its cloud_type
\* followed by i, so the cloud ids of one result are pairwise distinct.
C24_RankedCloudsWithIds ==
    LET \* convergence_quality = total_weighted_strength / (1 + price_std)
        KeyGreater(a, b) ==
            \/ a.total_weighted_strength > b.total_weighted_strength
            \/ /\ a.total_weighted_strength = b.total_weighted_strength
               /\ a.total_weighted_strength > 0
               /\ RatLess(a.price_var, b.price_var)
    IN cpc = "done" =>
           /\ Len(final_clouds) <= cfg.max_clouds
           /\ \A i, j \in DOMAIN final_clouds :
                  i < j => ~KeyGreater(final_clouds[j], final_clouds[i])
           /\ \A i \in DOMAIN final_clouds :
                  final_clouds[i].cloud_id =
                      <<IF final_clouds[i].cloud_type = "Resistance"
                        THEN "R" ELSE "S", i - 1>>
           /\ \A i, j \in DOMAIN final_clouds :
                  i # j => final_clouds[i].cloud_id # final_clouds[j].cloud_id

\* Three clouds of both types and of different strengths are returned.
C24_Witness ==
    /\ cpc = "done"
    /\ Len(final_clouds) = 3
    /\ \E i, j \in DOMAIN final_clouds :
           /\ final_clouds[i].cloud_type # final_clouds[j].cloud_type
           /\ final_clouds[i].total_weighted_strength
                  # final_clouds[j].total_weighted_strength

\* C27: every trend cloud returned, including a merged one whose center is
\* recomputed over the union of the projections, has cloud_type
\* 'Resistance' exactly when its center_price > current_price, and
\* 'Support' otherwise.
C27_TypeMatchesCenter ==
    cpc = "done" =>
        \A k \in DOMAIN final_clouds :
            LET center == final_clouds[k].center_price
            IN /\ final_clouds[k].cloud_type \in {"Resistance", "Support"}
               /\ final_clouds[k].cloud_type = "Resistance"
                      <=> center.n > current_price * center.d

\* A merged Resistance cloud and a Support cloud centred exactly on the
\* current price are returned together.
C27_Witness ==
    /\ cpc = "done"
    /\ \E k \in DOMAIN final_clouds :
           /\ final_clouds[k].merged_from >= 2
           /\ final_clouds[k].cloud_type = "Resistance"
    /\ \E k \in DOMAIN final_clouds :
           /\ final_clouds[k].center_price = Rat(current_price, 1)
           /\ final_clouds[k].cloud_type = "Support"

\* C28: zoning and merging partition their inputs.  No projection belongs
\* to more than one initial zone; each initial zone ends up in exactly one
\* zone returned by the merge step; the returned zones' member-projection
\* sets are pairwise disjoint and the total projection count is preserved.
C28_ZonesPartition ==
    LET Members(zone) == Range(zone.projections)
        Disjoint(zones) ==
            \A i, j \in DOMAIN zones :
                i # j => Members(zones[i]) \cap Members(zones[j]) = {}
        NoRepeats(zones) ==
            \A i \in DOMAIN zones :
                /\ Cardinality(Members(zones[i])) = Len(zones[i].projections)
                /\ zones[i].total_projections = Len(zones[i].projections)
        Total(zones) == SumSeq([i \in DOMAIN zones |-> zones[i].total_projections])
    IN /\ cpc \in {"zoned", "converged", "done"} =>
              /\ Disjoint(initial_zones)
              /\ NoRepeats(initial_zones)
              /\ \A i \in DOMAIN initial_zones :
                     Members(initial_zones[i]) \subseteq Range(trendline_projections)
       /\ cpc \in {"converged", "done"} =>
              /\ \A i \in DOMAIN initial_zones :
                     Cardinality({k \in DOMAIN convergence_zones :
                         Members(initial_zones[i])
                             \subseteq Members(convergence_zones[k])}) = 1
              /\ Disjoint(convergence_zones)
              /\ NoRepeats(convergence_zones)
              /\ Total(convergence_zones) = Total(initial_zones)

\* The merge step has returned a merged zone next to an unmerged one, from
\* three or more initial zones.
C28_Witness ==
    /\ cpc = "converged"
    /\ Len(initial_zones) >= 3
    /\ \E k, m \in DOMAIN convergence_zones :
           /\ convergence_zones[k].merged_from >= 2
           /\ convergence_zones[m].merged_from = 0

(***************************************************************************)
(* trendline_detector.py: floats as exact rationals                        *)
(*                                                                         *)
(* A float is Rat(n, d) in lowest terms with d > 0, or NaN (d = 0), which  *)
(* numpy yields for 0.0 / 0.0.  NaN propagates through arithmetic and      *)
(* every comparison with it is false.                                      *)
(***************************************************************************)
NaN == Rat(0, 0)
IsNaN(a) == a.d = 0

RECURSIVE GCD(_, _)
GCD(a, b) == IF b = 0 THEN a ELSE GCD(b, a % b)

Norm(n, d) ==
    IF d = 0 THEN NaN
    ELSE LET g == GCD(Abs(n), Abs(d))
             sgn == IF d < 0 THEN -1 ELSE 1
         IN Rat(sgn * (n \div g), sgn * (d \div g))

FInt(k) == Rat(k, 1)

FAdd(a, b) ==
    IF IsNaN(a) \/ IsNaN(b) THEN NaN
    ELSE LET g == GCD(a.d, b.d)
         IN Norm(a.n * (b.d \div g) + b.n * (a.d \div g), (a.d \div g) * b.d)

FSub(a, b) ==
    LET FNeg(x) == IF IsNaN(x) THEN NaN ELSE Rat(-x.n, x.d)
    IN  FAdd(a, FNeg(b))

FMul(a, b) ==
    IF IsNaN(a) \/ IsNaN(b) THEN NaN
    ELSE LET g1 == GCD(Abs(a.n), b.d)
             g2 == GCD(Abs(b.n), a.d)
         IN Norm((a.n \div g1) * (b.n \div g2), (a.d \div g2) * (b.d \div g1))

\* a / b; the only division by zero the detector performs is 0.0 / 0.0
FDiv(a, b) ==
    IF IsNaN(a) \/ IsNaN(b) \/ b.n = 0 THEN NaN
    ELSE FMul(a, IF b.n < 0 THEN Rat(-b.d, -b.n) ELSE Rat(b.d, b.n))

FLess(a, b) == ~IsNaN(a) /\ ~IsNaN(b) /\ RatLess(a, b)
FLeq(a, b) ==
    LET RatLeq(x, y) == x.n * y.d <= y.n * x.d
    IN  ~IsNaN(a) /\ ~IsNaN(b) /\ RatLeq(a, b)
FEq(a, b) == ~IsNaN(a) /\ ~IsNaN(b) /\ RatEq(a, b)
RECURSIVE FPow(_, _)
FPow(a, k) == IF k = 0 THEN FInt(1) ELSE FMul(a, FPow(a, k - 1))

RECURSIVE FSum(_)
FSum(s) == IF s = <<>> THEN FInt(0) ELSE FAdd(Head(s), FSum(Tail(s)))

(***************************************************************************)
(* Units.  A date is a whole number of half-lives after the first bar      *)
(* (stock_data['Date'].iloc[0]); the last bar, the reference date of the   *)
(* time weights, is LastBar.  A log_price is a whole number of             *)
(* log_tolerance = ln(1 + 2/100).  The least-squares line and its          *)
(* residuals do not depend on the unit of x.                               *)
(***************************************************************************)
half_life_days == 80
weight_factor == 2
max_iterations == 100
log_tolerance == FInt(1)

MaxPivots == 5          \* largest pivot pool handed to a selector
Dates == 0..3
LastBar == CHOOSE d \in Dates : \A e \in Dates : e <= d
\* (d2 - d1).days
DaysBetween(d1, d2) == (d2 - d1) * half_life_days

(***************************************************************************)
(* calculate_time_weight, apply_time_weights_to_pivots                     *)
(***************************************************************************)
\* np.exp(-days_ago * np.log(2) / half_life_days) = 2^(-days_ago / half_life_days)
DecayFactor(days_ago) ==
    LET halves == days_ago \div half_life_days
    IN IF halves >= 0 THEN Rat(1, Pow(2, halves)) ELSE Rat(Pow(2, -halves), 1)

\* line 221 without its floor
NoMinimumWeight(decay_factor, minimum) == decay_factor

\* line 221: weight = max(decay_factor, min_weight)
EnsureMinimumWeight(decay_factor, minimum) ==
    LET FMax(a, b) == IF FLess(a, b) THEN b ELSE a       \* Python's max(a, b)
    IN  FMax(decay_factor, minimum)

calculate_time_weight(pivot_date, reference_date, minimum) ==
    LET days_ago == DaysBetween(pivot_date, reference_date)
    IN EnsureMinimumWeight(DecayFactor(days_ago), minimum)

apply_time_weights_to_pivots(pool, minimum) ==
    [k \in DOMAIN pool |->
        pool[k] @@ [time_weight |->
            calculate_time_weight(pool[k].date, LastBar, minimum)]]

(***************************************************************************)
(* The two refiners: find_iterative_trendline_log and                      *)
(* find_weighted_iterative_trendline_log                                   *)
(***************************************************************************)
XVals(points) == [k \in DOMAIN points |-> FInt(points[k].date)]
YVals(points) == [k \in DOMAIN points |-> FInt(points[k].log_price)]

\* p.get('time_weight', 1.0)
TimeWeightOf(p) ==
    IF "time_weight" \in DOMAIN p THEN p.time_weight ELSE FInt(1)

\* lines 292-315 and 354-372: the weighted least-squares line.  In the loop
\* the caller leaves at `denominator == 0` before slope is used.
WeightedFit(points) ==
    LET \* lines 268-272: weights = time_weight ** weight_factor
        FitWeights(pts) ==
            [k \in DOMAIN pts |-> FPow(TimeWeightOf(pts[k]), weight_factor)]
    IN
    LET x_vals == XVals(points)
        y_vals == YVals(points)
        weights == FitWeights(points)
        K == DOMAIN points
        sum_w == FSum(weights)
        mean_x == FDiv(FSum([k \in K |-> FMul(weights[k], x_vals[k])]), sum_w)
        mean_y == FDiv(FSum([k \in K |-> FMul(weights[k], y_vals[k])]), sum_w)
        numerator == FSum([k \in K |->
            FMul(weights[k], FMul(FSub(x_vals[k], mean_x), FSub(y_vals[k], mean_y)))])
        denominator == FSum([k \in K |->
            FMul(weights[k], FPow(FSub(x_vals[k], mean_x), 2))])
        slope == FDiv(numerator, denominator)
        intercept == FSub(mean_y, FMul(slope, mean_x))
        y_pred == [k \in K |-> FAdd(FMul(slope, x_vals[k]), intercept)]
        ss_res == FSum([k \in K |->
            FMul(weights[k], FPow(FSub(y_vals[k], y_pred[k]), 2))])
        ss_tot == FSum([k \in K |->
            FMul(weights[k], FPow(FSub(y_vals[k], mean_y), 2))])
    IN [denominator |-> denominator,
        slope |-> slope,
        intercept |-> intercept,
        r_squared |-> IF FLess(FInt(0), ss_tot)
                      THEN FSub(FInt(1), FDiv(ss_res, ss_tot))
                      ELSE FInt(0)]

\* scipy.stats.linregress(x_vals, y_vals) for x values that are not all
\* identical: slope = ssxym / ssxm, intercept = ymean - slope * xmean,
\* r = 0 if ssxm or ssym is 0, else ssxym / sqrt(ssxm * ssym).  Only
\* r_value ** 2 is used.  With identical x values scipy either raises
\* ValueError (AllXIdentical, handled by the caller) or, in older releases,
\* returns slope = intercept = nan with r = 0.
linregress(points) ==
    LET x_vals == XVals(points)
        y_vals == YVals(points)
        K == DOMAIN points
        n == FInt(Len(points))
        xmean == FDiv(FSum(x_vals), n)
        ymean == FDiv(FSum(y_vals), n)
        ssxm == FDiv(FSum([k \in K |-> FPow(FSub(x_vals[k], xmean), 2)]), n)
        ssym == FDiv(FSum([k \in K |-> FPow(FSub(y_vals[k], ymean), 2)]), n)
        ssxym == FDiv(FSum([k \in K |->
            FMul(FSub(x_vals[k], xmean), FSub(y_vals[k], ymean))]), n)
        slope == FDiv(ssxym, ssxm)
    IN [slope |-> slope,
        intercept |-> FSub(ymean, FMul(slope, xmean)),
        r_squared |-> IF ssxm.n = 0 \/ ssym.n = 0 THEN FInt(0)
                      ELSE FDiv(FMul(ssxym, ssxym), FMul(ssxm, ssym))]

AllXIdentical(points) ==
    \A k \in DOMAIN points : points[k].date = points[1].date

\* lines 55-60 and 330-338: log_difference <= tolerance
WithinTolerance(pivot, slope, intercept, weighted) ==
    LET FAbs(a) == IF IsNaN(a) THEN NaN ELSE Rat(Abs(a.n), a.d)
        \* lines 335, 30: the tolerance a pivot is held to
        EffectiveTolerance(pv, is_weighted) ==
            IF is_weighted
            THEN FMul(log_tolerance, FSub(FInt(2), TimeWeightOf(pv)))
            ELSE log_tolerance
    IN
    LET expected_log_y == FAdd(FMul(slope, FInt(pivot.date)), intercept)
        log_difference == FAbs(FSub(expected_log_y, FInt(pivot.log_price)))
    IN FLeq(log_difference, EffectiveTolerance(pivot, weighted))

\* lines 49-52 and 324-327 without the `if pivot in current_points: continue`
CandidateAnyPivot(pivot, points) == TRUE

\* lines 51-52 and 326-327: a pivot already in current_points is skipped
CandidatePivot(pivot, points) == pivot \notin Range(points)

\* lines 48-61 and 323-339: the pivots of the pool, in pool order, that the
\* current line absorbs
NewPoints(pool, points, slope, intercept, weighted) ==
    LET hits == {k \in DOMAIN pool :
                    /\ CandidatePivot(pool[k], points)
                    /\ WithinTolerance(pool[k], slope, intercept, weighted)}
        order == SetToSeq(hits)
    IN [k \in DOMAIN order |-> pool[order[k]]]

\* current_points = new_points in place of the extend
ReplacePoints(points, new_points) == new_points

\* lines 68 and 346: current_points.extend(new_points)
ExtendPoints(points, new_points) == points \o new_points

\* lines 45 and 292-309 fitting the two seed points only, never the absorbed ones
SeedLineFit(points, weighted) ==
    IF weighted THEN WeightedFit(SubSeq(points, 1, 2))
    ELSE linregress(SubSeq(points, 1, 2))

\* The line the loop body fits to current_points (lines 45 and 292-309).
LoopFit(points, weighted) ==
    IF weighted THEN WeightedFit(points) ELSE linregress(points)

\* lines 70-89 and 348-396: the record a refiner returns
RefinerResult(points, weighted, iterations) ==
    LET fit == LoopFit(points, weighted)
        weighted_strength ==
            FSum([k \in DOMAIN points |-> TimeWeightOf(points[k])])
        base == [connected_points |-> points,
                 strength |-> Len(points),
                 log_slope |-> fit.slope,
                 log_intercept |-> fit.intercept,
                 r_squared |-> fit.r_squared,
                 iterations |-> iterations]
    IN IF weighted
       THEN base @@ [weighted_strength |-> weighted_strength,
                     average_weight |->
                         FDiv(weighted_strength, FInt(Len(points)))]
       ELSE base

(***************************************************************************)
(* The two selectors: detect_powerful_trendlines_log and                   *)
(* detect_time_weighted_trendlines_log                                     *)
(***************************************************************************)
\* lines 101-103 and 414-415 with the inner loop started at i, not i + 1
IndexPairsWithSelf(n) ==
    LET S == {pr \in (0..(n - 1)) \X (0..(n - 1)) : pr[1] <= pr[2]}
        before(q, pr) == q[1] < pr[1] \/ (q[1] = pr[1] /\ q[2] < pr[2])
    IN [k \in 1..Cardinality(S) |->
           CHOOSE pr \in S : Cardinality({q \in S : before(q, pr)}) = k - 1]

\* lines 101-103 and 414-415: the index pairs (i, j), i < j, 0-based, in the
\* order of the nested loops
IndexPairs(n) ==
    LET S == {pr \in (0..(n - 1)) \X (0..(n - 1)) : pr[1] < pr[2]}
        before(q, pr) == q[1] < pr[1] \/ (q[1] = pr[1] /\ q[2] < pr[2])
    IN [k \in 1..Cardinality(S) |->
           CHOOSE pr \in S : Cardinality({q \in S : before(q, pr)}) = k - 1]

\* lines 100-108: pairs sorted by time distance, longest first
PowerfulPairs(pool) ==
    LET idx == IndexPairs(Len(pool))
        pairs == [k \in DOMAIN idx |->
                     <<idx[k][1], idx[k][2],
                       pool[idx[k][1] + 1], pool[idx[k][2] + 1]>>]
        span(pr) == Abs(DaysBetween(pr[3].date, pr[4].date))
        longer(a, b) == span(a) > span(b)
    IN StableSort(pairs, longer)

\* lines 413-430: pairs sorted by priority score, highest first
WeightedPairs(pool) ==
    LET \* lines 419-423
        PriorityScore(pivot1, pivot2) ==
            LET combined_weight ==
                    FDiv(FAdd(TimeWeightOf(pivot1), TimeWeightOf(pivot2)), FInt(2))
                time_span == Abs(DaysBetween(pivot1.date, pivot2.date))
            IN FAdd(FMul(combined_weight, Rat(7, 10)),
                    FMul(FDiv(FInt(time_span), FInt(365)), Rat(3, 10)))
    IN
    LET idx == IndexPairs(Len(pool))
        pairs == [k \in DOMAIN idx |->
                     <<idx[k][1], idx[k][2],
                       pool[idx[k][1] + 1], pool[idx[k][2] + 1],
                       PriorityScore(pool[idx[k][1] + 1], pool[idx[k][2] + 1])>>]
        higher(a, b) == FLess(b[5], a[5])
    IN StableSort(pairs, higher)

\* tuple(sorted([i, j]))
PairKey(i, j) == IF i <= j THEN <<i, j>> ELSE <<j, i>>

\* lines 118 and 440 with the test always failing
NeverUsed(pair_key, used_pairs) == FALSE

\* lines 118 and 440: pair_key in used_trendline_pairs
PairUsed(pair_key, used_pairs) == pair_key \in used_pairs

\* lines 142-148 and 470-476: next(idx for idx, p in enumerate(pool) if p == point)
ConnectedIndices(pool, connected_points) ==
    [k \in DOMAIN connected_points |->
        (CHOOSE idx \in DOMAIN pool :
            /\ pool[idx] = connected_points[k]
            /\ \A e \in DOMAIN pool : pool[e] = connected_points[k] => idx <= e) - 1]

\* lines 151-157 and 478-484 marking the seed pair alone
SeedPairOnly(connected_indices) ==
    {PairKey(connected_indices[1], connected_indices[2])}

\* lines 151-157 and 478-484 marking nothing
NoPairs(connected_indices) == {}

\* lines 151-157 and 478-484: every pair of connected points
PairsToRemove(connected_indices) ==
    {PairKey(connected_indices[pi], connected_indices[pj]) :
        <<pi, pj>> \in {q \in (DOMAIN connected_indices) \X (DOMAIN connected_indices) :
                          q[1] < q[2]}}

\* lines 126-137 and 451-465
TrendlineRecord(pair, res, weighted) ==
    LET base == [start_pivot |-> pair[3],
                 end_pivot |-> pair[4],
                 connected_points |-> res.connected_points,
                 strength |-> res.strength,
                 log_slope |-> res.log_slope,
                 log_intercept |-> res.log_intercept,
                 r_squared |-> res.r_squared,
                 iterations |-> res.iterations,
                 length_days |-> Abs(DaysBetween(pair[3].date, pair[4].date))]
    IN IF weighted
       THEN base @@ [weighted_strength |-> res.weighted_strength,
                     average_weight |-> res.average_weight,
                     priority_score |-> pair[5]]
       ELSE base

(***************************************************************************)
(* list.sort(key=..., reverse=True) as CPython runs it on a list shorter   *)
(* than 64: reverse, count the leading run, binary insertion sort, reverse *)
(* back.  With totally ordered keys this is the stable descending sort; a  *)
(* NaN key answers False to every comparison and the outcome is whatever   *)
(* the algorithm makes of that.                                            *)
(***************************************************************************)
\* lines 168 and 497: the sort key
SortKey(tl, weighted) ==
    IF weighted THEN <<tl.weighted_strength, tl.r_squared>>
    ELSE <<FInt(tl.strength), tl.r_squared>>

\* Python's a < b on 2-tuples of floats
TupleLess(a, b) ==
    IF ~FEq(a[1], b[1]) THEN FLess(a[1], b[1])
    ELSE IF ~FEq(a[2], b[2]) THEN FLess(a[2], b[2])
    ELSE FALSE

Reverse(s) == [k \in 1..Len(s) |-> s[Len(s) + 1 - k]]

count_run(s) ==
    LET RECURSIVE RunEnd(_, _, _)
        RunEnd(run, n, descending) ==
            IF n < Len(run) /\ (TupleLess(run[n + 1].key, run[n].key) = descending)
            THEN RunEnd(run, n + 1, descending)
            ELSE n
    IN
    IF Len(s) <= 1 THEN [n |-> Len(s), descending |-> FALSE]
    ELSE LET descending == TupleLess(s[2].key, s[1].key)
         IN [n |-> RunEnd(s, 2, descending), descending |-> descending]

RECURSIVE binarysort(_, _)
binarysort(s, start) ==
    LET \* the insertion point of pivot in s[l+1 .. r], 0-based
        RECURSIVE BinarySearch(_, _, _, _)
        BinarySearch(run, pivot, l, r) ==
            IF l >= r THEN l
            ELSE LET p == l + ((r - l) \div 2)
                 IN IF TupleLess(pivot.key, run[p + 1].key)
                    THEN BinarySearch(run, pivot, l, p)
                    ELSE BinarySearch(run, pivot, p + 1, r)
    IN
    IF start > Len(s) THEN s
    ELSE LET pivot == s[start]
             l == BinarySearch(s, pivot, 0, start - 1)
         IN binarysort(SubSeq(s, 1, l) \o <<pivot>> \o SubSeq(s, l + 1, start - 1)
                           \o SubSeq(s, start + 1, Len(s)),
                       start + 1)

SortAscending(s) ==
    LET run == count_run(s)
        head == SubSeq(s, 1, run.n)
        prepared == (IF run.descending THEN Reverse(head) ELSE head)
                        \o SubSeq(s, run.n + 1, Len(s))
    IN binarysort(prepared, run.n + 1)

\* lines 168 and 497: trendlines.sort(key=..., reverse=True)
SortTrendlines(tls, weighted) ==
    LET keyed == [k \in DOMAIN tls |->
                     [key |-> SortKey(tls[k], weighted), val |-> tls[k]]]
        sorted == Reverse(SortAscending(Reverse(keyed)))
    IN [k \in DOMAIN sorted |-> sorted[k].val]

\* lines 171 and 500: trendlines[:max_lines]
TopTrendlines(tls, limit) == SubSeq(tls, 1, IF Len(tls) < limit THEN Len(tls) ELSE limit)

(***************************************************************************)
(* A selector run as a state machine                                       *)
(***************************************************************************)
\* The pivot detector hands over distinct pivots sorted by bar index.
Pools ==
    LET Pivots ==
            LET         LogPrices == 0..2
            IN
                  [date : Dates, log_price : LogPrices]
        PivotBefore(p, q) ==
            p.date < q.date \/ (p.date = q.date /\ p.log_price < q.log_price)
    IN
    {[k \in 1..Cardinality(S) |->
         CHOOSE p \in S : Cardinality({q \in S : PivotBefore(q, p)}) = k - 1] :
     S \in {T \in SUBSET Pivots : Cardinality(T) <= MaxPivots}}

SelectInit ==
    /\ spc = "start"
    /\ time_weighted \in BOOLEAN
    /\ pivots \in Pools
    /\ max_lines \in {2, 4}
    /\ min_weight \in (IF time_weighted THEN {Rat(1, 4), Rat(1, 2)} ELSE {<<>>})
    /\ linregress_raises \in (IF time_weighted THEN {FALSE} ELSE BOOLEAN)
    /\ weighted_pivots = <<>>
    /\ all_pairs = <<>>
    /\ pair_pos = 0
    /\ used_trendline_pairs = {}
    /\ found_trendlines = <<>>
    /\ top_trendlines = <<>>
    /\ current_points = <<>>
    /\ iteration = 0
    /\ result = <<>>
    /\ CloudIdle
    /\ PivotIdle
    /\ DetectIdle

\* The pool the refiner is handed: weighted_pivots or pivots.
SelectorPool == IF time_weighted THEN weighted_pivots ELSE pivots

\* lines 94-108 and 404-430
CreatePairs ==
    /\ spc = "start"
    /\ weighted_pivots' =
           IF time_weighted THEN apply_time_weights_to_pivots(pivots, min_weight)
           ELSE <<>>
    /\ all_pairs' =
           IF time_weighted THEN WeightedPairs(weighted_pivots')
           ELSE PowerfulPairs(pivots)
    /\ spc' = "loop"
    /\ UNCHANGED <<time_weighted, pivots, max_lines, min_weight,
                   linregress_raises, pair_pos, used_trendline_pairs,
                   found_trendlines, top_trendlines, current_points,
                   iteration, result, cloudVars, pivotVars, detectVars>>

\* lines 164 and 493 without the break: the loop ends by exhaustion only
LoopEndedByExhaustionOnly == pair_pos >= Len(all_pairs)

\* The for loop is over, by exhaustion or by the break of lines 164 and 493.
LoopEnded ==
    IF pair_pos >= Len(all_pairs) THEN TRUE
    ELSE found_trendlines # <<>> /\ Len(found_trendlines) >= max_lines

NextPair == all_pairs[pair_pos + 1]

\* lines 117-120 and 439-442
SkipUsedPair ==
    /\ spc = "loop"
    /\ ~LoopEnded
    /\ PairUsed(PairKey(NextPair[1], NextPair[2]), used_trendline_pairs)
    /\ pair_pos' = pair_pos + 1
    /\ UNCHANGED <<spc, time_weighted, pivots, max_lines, min_weight,
                   linregress_raises, weighted_pivots, all_pairs,
                   used_trendline_pairs, found_trendlines, top_trendlines,
                   current_points, iteration, result, cloudVars, pivotVars, detectVars>>

\* lines 123 and 445, then 21 and 32-33 (265 and 277-278)
CallRefiner ==
    /\ spc = "loop"
    /\ ~LoopEnded
    /\ ~PairUsed(PairKey(NextPair[1], NextPair[2]), used_trendline_pairs)
    /\ pair_pos' = pair_pos + 1
    /\ current_points' = <<NextPair[3], NextPair[4]>>
    /\ iteration' = 0
    /\ spc' = "refining"
    /\ UNCHANGED <<time_weighted, pivots, max_lines, min_weight,
                   linregress_raises, weighted_pivots, all_pairs,
                   used_trendline_pairs, found_trendlines, top_trendlines,
                   result, cloudVars, pivotVars, detectVars>>

\* One pass of the while loop, lines 35-68 and 280-346.
RefineIterate ==
    /\ spc = "refining"
    /\ IF iteration >= max_iterations
       THEN /\ spc' = "fitting"
            /\ UNCHANGED <<iteration, current_points>>
       ELSE /\ iteration' = iteration + 1
            /\ IF time_weighted
                  /\ WeightedFit(current_points).denominator.n = 0
               THEN \* lines 305-306
                    /\ spc' = "fitting"
                    /\ UNCHANGED current_points
               ELSE IF ~time_weighted /\ linregress_raises
                       /\ AllXIdentical(current_points)
               THEN \* line 45: ValueError leaves the refiner and the selector
                    /\ spc' = "raised"
                    /\ UNCHANGED current_points
               ELSE LET fit == LoopFit(current_points, time_weighted)
                        new_points == NewPoints(SelectorPool, current_points,
                                          fit.slope, fit.intercept, time_weighted)
                    IN IF new_points = <<>>
                       THEN /\ spc' = "fitting"
                            /\ UNCHANGED current_points
                       ELSE /\ spc' = "refining"
                            /\ current_points' =
                                   ExtendPoints(current_points, new_points)
    /\ UNCHANGED <<time_weighted, pivots, max_lines, min_weight,
                   linregress_raises, weighted_pivots, all_pairs, pair_pos,
                   used_trendline_pairs, found_trendlines, top_trendlines,
                   result, cloudVars, pivotVars, detectVars>>

\* lines 70-89 and 348-396: the final fit and the return
RefinerReturns ==
    /\ spc = "fitting"
    /\ IF ~time_weighted /\ linregress_raises /\ AllXIdentical(current_points)
       THEN /\ spc' = "raised"
            /\ UNCHANGED result
       ELSE /\ spc' = "refined"
            /\ result' = IF Len(current_points) >= 2
                         THEN RefinerResult(current_points, time_weighted, iteration)
                         ELSE <<>>
    /\ UNCHANGED <<time_weighted, pivots, max_lines, min_weight,
                   linregress_raises, weighted_pivots, all_pairs, pair_pos,
                   used_trendline_pairs, found_trendlines, top_trendlines,
                   current_points, iteration, cloudVars, pivotVars, detectVars>>

\* lines 125-165 and 450-494
AcceptTrendline ==
    /\ spc = "refined"
    /\ IF result # <<>> /\ result.strength >= 2
       THEN /\ found_trendlines' = Append(found_trendlines,
                   TrendlineRecord(all_pairs[pair_pos], result, time_weighted))
            /\ used_trendline_pairs' = used_trendline_pairs \cup
                   PairsToRemove(ConnectedIndices(SelectorPool,
                                                  result.connected_points))
       ELSE UNCHANGED <<found_trendlines, used_trendline_pairs>>
    /\ spc' = "loop"
    /\ UNCHANGED <<time_weighted, pivots, max_lines, min_weight,
                   linregress_raises, weighted_pivots, all_pairs, pair_pos,
                   top_trendlines, current_points, iteration, result,
                   cloudVars, pivotVars, detectVars>>

\* lines 167-188 and 496-518
SortAndReturn ==
    /\ spc = "loop"
    /\ LoopEnded
    /\ found_trendlines' = SortTrendlines(found_trendlines, time_weighted)
    /\ top_trendlines' = TopTrendlines(found_trendlines', max_lines)
    /\ spc' = "done"
    /\ UNCHANGED <<time_weighted, pivots, max_lines, min_weight,
                   linregress_raises, weighted_pivots, all_pairs, pair_pos,
                   used_trendline_pairs, current_points, iteration, result,
                   cloudVars, pivotVars, detectVars>>

SelectNext ==
    \/ CreatePairs
    \/ SkipUsedPair
    \/ CallRefiner
    \/ RefineIterate
    \/ RefinerReturns
    \/ AcceptTrendline
    \/ SortAndReturn

SpecSelect == SelectInit /\ [][SelectNext]_vars

(***************************************************************************)
(* Claims about trendline_detector.py, checked under SpecSelect            *)
(***************************************************************************)
InRefiner == spc \in {"refining", "fitting", "refined"}

\* C5: the refiner always terminates and reports at most 100 iterations.
\* The iteration counter never exceeds max_iterations; inside the loop every
\* completed pass has absorbed at least one pivot not absorbed before, out of
\* the finite pool, so at most Len(pool) - 1 passes run.
C5_RefinerTerminates ==
    /\ iteration <= max_iterations
    /\ result # <<>> => result.iterations <= max_iterations
    /\ \A k \in DOMAIN found_trendlines :
           found_trendlines[k].iterations <= max_iterations
    /\ spc = "refining" =>
           /\ iteration + 2 <= Len(current_points)
           /\ Cardinality(Range(current_points)) = Len(current_points)
           /\ Range(current_points) \subseteq Range(SelectorPool)

\* A refiner returned after three or more passes.
C5_Witness ==
    /\ spc = "refined"
    /\ result # <<>>
    /\ result.iterations >= 3

\* C6: every pivot in a returned trendline's connected_points, seeds
\* included, lies within its effective tolerance of the returned line.
\* (Stated for returned lines whose slope is a number.)
C6_ConnectedWithinTolerance ==
    (spc = "refined" /\ result # <<>> /\ ~IsNaN(result.log_slope)) =>
        \A k \in DOMAIN result.connected_points :
            WithinTolerance(result.connected_points[k], result.log_slope,
                            result.log_intercept, time_weighted)

\* current_points.extend(new_points): the old list is a prefix of the new one
IsPrefix(s, t) == Len(s) <= Len(t) /\ SubSeq(t, 1, Len(s)) = s

\* C7: during refinement the current point set only grows.  It starts as
\* the two seed pivots, every pass keeps what was there and appends, and the
\* returned connected_points hold both seeds.
C7_PointsOnlyGrow ==
    /\ [](InRefiner =>
            /\ Len(current_points) >= 2
            /\ current_points[1] = all_pairs[pair_pos][3]
            /\ current_points[2] = all_pairs[pair_pos][4])
    /\ []((spc = "refined" /\ result # <<>>) =>
            {all_pairs[pair_pos][3], all_pairs[pair_pos][4]}
                \subseteq Range(result.connected_points))
    /\ [][spc = "refining" => IsPrefix(current_points, current_points')]_vars

\* A second pass runs on a point set that has already grown to four pivots.
C7_Witness ==
    /\ spc = "refining"
    /\ iteration >= 2
    /\ Len(current_points) >= 4

\* C8: the selector returns at most max_lines trendlines, ordered by
\* (weighted_strength, r_squared) descending when time-weighted and by
\* (point count, r_squared) descending otherwise: no trendline's key is less
\* than the key of one that comes after it.
C8_SortedTopTrendlines ==
    spc = "done" =>
        /\ Len(top_trendlines) <= max_lines
        /\ \A a, b \in DOMAIN top_trendlines :
               a < b => ~TupleLess(SortKey(top_trendlines[a], time_weighted),
                                   SortKey(top_trendlines[b], time_weighted))

\* C9: every time weight lies in [min_weight, 1.0], and of two pivots the
\* older one's weight is <= the newer one's.
C9_TimeWeightBounds ==
    (time_weighted /\ spc \notin {"idle", "start"}) =>
        /\ Len(weighted_pivots) = Len(pivots)
        /\ \A k \in DOMAIN weighted_pivots :
               /\ FLeq(min_weight, weighted_pivots[k].time_weight)
               /\ FLeq(weighted_pivots[k].time_weight, FInt(1))
        /\ \A k, m \in DOMAIN weighted_pivots :
               weighted_pivots[k].date <= weighted_pivots[m].date =>
                   FLeq(weighted_pivots[k].time_weight,
                        weighted_pivots[m].time_weight)

\* Weights were applied to a pool holding a pivot at the reference date
\* (weight 1), an older one still above the floor, and one raised to the
\* floor.
C9_Witness ==
    /\ time_weighted
    /\ spc = "loop"
    /\ \E k, m, j \in DOMAIN weighted_pivots :
          /\ FEq(weighted_pivots[j].time_weight, FInt(1))
          /\ FLess(weighted_pivots[m].time_weight, weighted_pivots[j].time_weight)
          /\ FLess(min_weight, weighted_pivots[m].time_weight)
          /\ FEq(weighted_pivots[k].time_weight, min_weight)
          /\ FLess(DecayFactor(DaysBetween(weighted_pivots[k].date, LastBar)),
                   min_weight)

\* C13: with fewer than 2 pivots in the pool both selectors build no seed
\* pair, never enter the refiner, raise nothing, and return an empty list.
C13_TooFewPivotsNoTrendlines ==
    (Len(pivots) < 2 /\ spc # "idle") =>
        /\ all_pairs = <<>>
        /\ spc \in {"start", "loop", "done"}
        /\ found_trendlines = <<>>
        /\ top_trendlines = <<>>

\* The time-weighted selector returned on a pool of one weighted pivot.
C13_Witness ==
    /\ spc = "done"
    /\ time_weighted
    /\ Len(weighted_pivots) = 1
    /\ top_trendlines = <<>>

\* The seed pair the for loop took last, as an unordered index pair.
CurrentPairKey == PairKey(all_pairs[pair_pos][1], all_pairs[pair_pos][2])

\* C18: a seed pair already in the used-pair set when the loop reaches it
\* is never passed to the refiner and never produces a trendline: the loop
\* moves on with nothing else changed, and whatever is in the refiner or
\* is being recorded was reached unmarked.
C18_UsedPairNeverRefined ==
    /\ [](InRefiner => CurrentPairKey \notin used_trendline_pairs)
    /\ [][(/\ spc = "loop"
           /\ ~LoopEnded
           /\ PairKey(NextPair[1], NextPair[2]) \in used_trendline_pairs)
              => /\ spc' = "loop"
                 /\ pair_pos' = pair_pos + 1
                 /\ found_trendlines' = found_trendlines
                 /\ used_trendline_pairs' = used_trendline_pairs
                 /\ current_points' = current_points
                 /\ result' = result]_vars

\* The loop has just stepped over a used pair and stands at an unused one,
\* with a trendline recorded.
C18_Witness ==
    /\ spc = "loop"
    /\ pair_pos >= 1
    /\ pair_pos < Len(all_pairs)
    /\ found_trendlines # <<>>
    /\ CurrentPairKey \in used_trendline_pairs
    /\ result # <<>>
    /\ <<all_pairs[pair_pos][3], all_pairs[pair_pos][4]>>
           # <<result.connected_points[1], result.connected_points[2]>>
    /\ PairKey(NextPair[1], NextPair[2]) \notin used_trendline_pairs

\* C19: the used-pair set is exactly the set of unordered index pairs drawn
\* from the connected points of the trendlines accepted so far.
C19_UsedPairsExact ==
    LET \* The unordered index pairs drawn from one trendline's connected points.
        ConnectedPairs(tl) ==
            {pr \in (0..(Len(SelectorPool) - 1)) \X (0..(Len(SelectorPool) - 1)) :
                /\ pr[1] < pr[2]
                /\ SelectorPool[pr[1] + 1] \in Range(tl.connected_points)
                /\ SelectorPool[pr[2] + 1] \in Range(tl.connected_points)}
    IN
    spc \in {"loop", "refining", "fitting", "refined", "raised"} =>
        used_trendline_pairs =
            UNION {ConnectedPairs(found_trendlines[k]) : k \in DOMAIN found_trendlines}

\* Two trendlines are accepted, one of three or more points, and they share
\* a pivot.
C19_Witness ==
    /\ spc = "loop"
    /\ \E k, m \in DOMAIN found_trendlines :
          /\ k # m
          /\ found_trendlines[k].strength >= 3
          /\ Range(found_trendlines[k].connected_points)
                \cap Range(found_trendlines[m].connected_points) # {}

\* C20: no accepted trendline's connected-point set is a subset of, or
\* equal to, that of a trendline accepted earlier in the same run.
C20_NoSubsetTrendline ==
    spc \in {"loop", "refining", "fitting", "refined", "raised"} =>
        \A k, m \in DOMAIN found_trendlines :
            k < m => ~(Range(found_trendlines[m].connected_points)
                          \subseteq Range(found_trendlines[k].connected_points))

\* A later trendline holds all but one pivot of an earlier, larger one.
C20_Witness ==
    /\ spc = "loop"
    /\ \E k, m \in DOMAIN found_trendlines :
          /\ k < m
          /\ found_trendlines[k].strength >= 3
          /\ Cardinality(Range(found_trendlines[m].connected_points)
                            \cap Range(found_trendlines[k].connected_points)) = 1
          /\ found_trendlines[m].strength >= 3

\* C21: the selector stops refining as soon as max_lines trendlines have
\* been accepted and otherwise processes every pair: never more than
\* max_lines trendlines are accepted, and on return either exactly max_lines
\* were accepted or every unordered pair of pool pivots is in the used set.
C21_StopsAtMaxOrExhausts ==
    /\ spc \in {"loop", "refining", "fitting", "refined", "done"} =>
           Len(found_trendlines) <= max_lines
    /\ spc = "done" =>
           \/ Len(found_trendlines) = max_lines
           \/ \A i, j \in 0..(Len(pivots) - 1) :
                  i < j => PairKey(i, j) \in used_trendline_pairs

\* The selector has returned at max_lines trendlines with pairs left that
\* were neither refined nor marked as used.
C21_Witness ==
    /\ spc = "done"
    /\ Len(found_trendlines) = max_lines
    /\ pair_pos < Len(all_pairs)
    /\ \E i, j \in 0..(Len(pivots) - 1) :
           i < j /\ PairKey(i, j) \notin used_trendline_pairs

\* C29: when the refiner returns after fewer than 100 iterations from a
\* non-degenerate fit, the result is a fixed point: no pivot of the pool
\* outside connected_points lies within its effective tolerance of the
\* returned line, and the returned slope and intercept are the fit of
\* exactly the returned connected_points.
C29_ReturnedLineIsFixedPoint ==
    (/\ spc = "refined"
     /\ result # <<>>
     /\ result.iterations < max_iterations
     /\ ~IsNaN(result.log_slope)) =>
        LET fit == IF time_weighted THEN WeightedFit(result.connected_points)
                   ELSE linregress(result.connected_points)
        IN /\ \A k \in DOMAIN SelectorPool :
                  SelectorPool[k] \notin Range(result.connected_points) =>
                      ~WithinTolerance(SelectorPool[k], result.log_slope,
                                       result.log_intercept, time_weighted)
           /\ result.log_slope = fit.slope
           /\ result.log_intercept = fit.intercept

\* A refiner has returned a line through three or more pivots, found in two
\* or more passes, with pivots of the pool left outside it.
C29_Witness ==
    /\ spc = "refined"
    /\ result # <<>>
    /\ ~IsNaN(result.log_slope)
    /\ result.iterations >= 2
    /\ result.strength >= 3
    /\ Len(SelectorPool) > result.strength

\* C30: every seed pair the selector passes to the refiner is recorded as an
\* accepted trendline: the refiner comes back, with the two seed points or
\* more, so every pair the loop has gone past is recorded or was already
\* used; the accepted trendlines never exceed max_lines; and the selector
\* returns a non-empty list whenever the pool has two or more pivots.
C30_EverySeedPairRecorded ==
    /\ spc # "raised"
    /\ spc = "refined" => (result # <<>> /\ result.strength >= 2)
    /\ spc = "loop" =>
           \A k \in 1..pair_pos :
               PairKey(all_pairs[k][1], all_pairs[k][2]) \in used_trendline_pairs
    /\ spc \in {"loop", "refining", "fitting", "refined", "done"} =>
           Len(found_trendlines) <= max_lines
    /\ (spc = "done" /\ Len(pivots) >= 2) => top_trendlines # <<>>

\* C11: a seed pair whose two pivots share the same day-offset is skipped:
\* no trendline is recorded for it, no exception leaves the selector, and
\* the selector goes on with the remaining pairs.
C11_SameDaySeedPairSkipped ==
    /\ spc # "raised"
    /\ \A k \in DOMAIN found_trendlines :
           found_trendlines[k].start_pivot.date # found_trendlines[k].end_pivot.date

(***************************************************************************)
(* pivot_detector.py: combine_overlapping_pivots                           *)
(***************************************************************************)
proximity_threshold == 3

MaxCandidates == 3      \* longest pooled candidate list

\* line 348: all_pivots.sort(key=lambda x: x['index'])
SortByIndex(candidates) ==
    LET earlier(a, b) == a.index < b.index
    IN StableSort(candidates, earlier)

\* lines 357-368: the look-ahead stops at the first pivot that is not similar;
\* the result is j, 0-based
RECURSIVE LookAhead(_, _, _)
LookAhead(candidates, i, j) ==
    LET \* lines 362-363: same type and within proximity of the group's first pivot
        SimilarPivot(next_pivot, current_pivot) ==
            /\ next_pivot.type = current_pivot.type
            /\ Abs(next_pivot.index - current_pivot.index) <= proximity_threshold
    IN
    IF j < Len(candidates) /\ SimilarPivot(candidates[j + 1], candidates[i + 1])
    THEN LookAhead(candidates, i, j + 1)
    ELSE j

\* Python's max(group, key=...) and min(group, key=...): the first of the
\* extreme elements
FirstMaxBy(group, key(_)) ==
    group[CHOOSE k \in DOMAIN group :
              /\ \A m \in DOMAIN group : key(group[m]) <= key(group[k])
              /\ \A m \in 1..(k - 1) : key(group[m]) < key(group[k])]

FirstMinBy(group, key(_)) ==
    group[CHOOSE k \in DOMAIN group :
              /\ \A m \in DOMAIN group : key(group[m]) >= key(group[k])
              /\ \A m \in 1..(k - 1) : key(group[m]) > key(group[k])]

\* line 381: 1e-6, counted in the unit of a candidate's log_price (5e-7)
same_price_tolerance == 2

\* one step of the detection series (5 * ln(1.02)) in the unit of a candidate's
\* log_price
BarStep == 198026

\* the first pivot of the group
FirstOfGroup(group) == group[1]

\* lines 370-385: the representative of a group
BestPivot(group) ==
    IF Len(group) = 1 THEN group[1]
    ELSE LET log_price(p) == p.log_price
             strength(p) == p.strength
             best_pivot == IF group[1].type = "high"
                           THEN FirstMaxBy(group, log_price)
                           ELSE FirstMinBy(group, log_price)
             same_price_group ==
                 SelectSeq(group, LAMBDA p :
                     Abs(p.log_price - best_pivot.log_price) < same_price_tolerance)
         IN IF Len(same_price_group) > 1
            THEN FirstMaxBy(same_price_group, strength)
            ELSE best_pivot

PivotInit ==
    LET Candidates ==
            [index : {0, 1, 4}, type : {"high", "low"},
             log_price : 0..2, strength : 1..2]
    IN
    /\ ppc = "start"
    /\ all_pivots \in UNION {[1..n -> Candidates] : n \in 0..MaxCandidates}
    /\ combined = <<>>
    /\ scan = 0
    /\ CloudIdle
    /\ SelectIdle
    /\ DetectIdle

\* lines 344-345
ReturnNoPivots ==
    /\ ppc = "start"
    /\ all_pivots = <<>>
    /\ ppc' = "done"
    /\ UNCHANGED <<all_pivots, combined, scan, cloudVars, selectVars, detectVars>>

\* lines 347-351: the sort is in place
SortPivots ==
    /\ ppc = "start"
    /\ all_pivots # <<>>
    /\ all_pivots' = SortByIndex(all_pivots)
    /\ combined' = <<>>
    /\ scan' = 0
    /\ ppc' = "scanning"
    /\ UNCHANGED <<cloudVars, selectVars, detectVars>>

\* lines 353-387: one pass of the outer while loop
CombineGroup ==
    /\ ppc = "scanning"
    /\ scan < Len(all_pivots)
    /\ LET j == LookAhead(all_pivots, scan, scan + 1)
           group == SubSeq(all_pivots, scan + 1, j)
       IN /\ combined' = Append(combined, BestPivot(group))
          /\ scan' = j
    /\ UNCHANGED <<ppc, all_pivots, cloudVars, selectVars, detectVars>>

\* line 389
ReturnCombined ==
    /\ ppc = "scanning"
    /\ scan >= Len(all_pivots)
    /\ ppc' = "done"
    /\ UNCHANGED <<all_pivots, combined, scan, cloudVars, selectVars, detectVars>>

PivotNext ==
    \/ ReturnNoPivots
    \/ SortPivots
    \/ CombineGroup
    \/ ReturnCombined

SpecPivot == PivotInit /\ [][PivotNext]_vars

(***************************************************************************)
(* Claims about pivot_detector.py, checked under SpecPivot                 *)
(***************************************************************************)
\* C10: after combine_overlapping_pivots the output never holds two pivots
\* of the same type whose bar indices differ by at most proximity_threshold
\* (in particular never two of the same type at the same bar index).
C10_NoNearbySameTypePivots ==
    ppc = "done" =>
        \A a, b \in DOMAIN combined :
            (a # b /\ combined[a].type = combined[b].type) =>
                Abs(combined[a].index - combined[b].index) > proximity_threshold

\* C25 as stated: for every merge group of more than one candidate the
\* representative has the most extreme log_price of the group (the maximum
\* for a high, the minimum for a low) and the highest strength among the
\* members whose log_price is within 1e-6 of that extreme; a group of one
\* candidate is output unchanged.
C25_RepresentativeIsExtreme ==
    [][(ppc = "scanning" /\ scan' > scan) =>
          LET group == SubSeq(all_pivots, scan + 1, scan')
              rep == combined'[Len(combined')]
              prices == [k \in DOMAIN group |-> group[k].log_price]
              extreme == IF group[1].type = "high"
                         THEN SeqMax(prices) ELSE SeqMin(prices)
          IN IF Len(group) = 1 THEN rep = group[1]
             ELSE /\ rep.log_price = extreme
                  /\ \A k \in DOMAIN group :
                         Abs(group[k].log_price - extreme) < same_price_tolerance
                             => group[k].strength <= rep.strength]_vars

\* C25, amended: the representative is a member of the group whose log_price
\* is within 1e-6 of the group's extreme, and it has the highest strength
\* among the members within 1e-6 of that extreme; a group of one candidate is
\* output unchanged.
C25_RepresentativeNearExtreme ==
    [][(ppc = "scanning" /\ scan' > scan) =>
          LET group == SubSeq(all_pivots, scan + 1, scan')
              rep == combined'[Len(combined')]
              prices == [k \in DOMAIN group |-> group[k].log_price]
              extreme == IF group[1].type = "high"
                         THEN SeqMax(prices) ELSE SeqMin(prices)
          IN IF Len(group) = 1 THEN rep = group[1]
             ELSE /\ \E k \in DOMAIN group : rep = group[k]
                  /\ Abs(rep.log_price - extreme) < same_price_tolerance
                  /\ \A k \in DOMAIN group :
                         Abs(group[k].log_price - extreme) < same_price_tolerance
                             => group[k].strength <= rep.strength]_vars

\* the first group holds a stronger pivot just short of the extreme, and that
\* pivot has been output
C25_Witness ==
    /\ ppc = "scanning"
    /\ Len(combined) = 1
    /\ scan >= 2
    /\ \E k \in 1..scan :
           /\ all_pivots[k].log_price # combined[1].log_price
           /\ Abs(all_pivots[k].log_price - combined[1].log_price)
                  < same_price_tolerance
           /\ all_pivots[k].strength < combined[1].strength
           /\ \A m \in 1..scan :
                  IF all_pivots[1].type = "high"
                  THEN all_pivots[m].log_price <= all_pivots[k].log_price
                  ELSE all_pivots[m].log_price >= all_pivots[k].log_price

(***************************************************************************)
(* pivot_detector.py: detect_pivot_points_ultra_log                        *)
(*                                                                         *)
(* bars is data['LogPrice'], one whole number per bar; bar i (0-based) is  *)
(* bars[i + 1].  The price unit is 5 log_tolerance = 5 ln(1.02), which is  *)
(* more than every zigzag threshold: ln(1 + t) and -ln(1 - t) lie strictly *)
(* between 0 and one unit for t up to 0.08.  A pivot's strength is held in *)
(* sixths, so that window / 3, 1 / threshold and 1.5 are whole numbers.    *)
(***************************************************************************)
MaxBars == 5            \* longest bar series handed to the detector
Methods == {"scipy", "rolling", "zigzag", "fractal", "slope", "derivative"}

BarAt(series, i) == series[i + 1]

\* the dict appended for a pivot at bar idx
PivotRecord(series, idx, type, method, strength) ==
    [index |-> idx, type |-> type, log_price |-> BarStep * BarAt(series, idx),
     method |-> method, strength |-> strength]

\* one pivot record per bar of a set of bar indices, in ascending order
PivotsAt(series, idxs, type, method, strength) ==
    LET order == SetToSeq(idxs)
    IN [k \in DOMAIN order |->
           PivotRecord(series, order[k], type, method, strength)]

RECURSIVE Flatten(_)
Flatten(lists) ==
    IF lists = <<>> THEN <<>> ELSE Head(lists) \o Flatten(Tail(lists))

\* argrelextrema(log_prices, np.greater / np.less, order=window)[0]
argrelextrema(series, greater, order) ==
    LET \* np.take(..., mode='clip')
        Clip(i, n) == IF i < 0 THEN 0 ELSE IF i > n - 1 THEN n - 1 ELSE i
    IN
    LET n == Len(series)
        beats(a, b) == IF greater THEN a > b ELSE a < b
    IN {i \in 0..(n - 1) :
           \A shift \in 1..order :
               /\ beats(BarAt(series, i), BarAt(series, Clip(i + shift, n)))
               /\ beats(BarAt(series, i), BarAt(series, Clip(i - shift, n)))}

\* lines 24-50
scipy_pivots(series) ==
    LET ScipyWindows == <<2, 3, 4, 5, 7, 10, 15>>
    IN
    Flatten([w \in DOMAIN ScipyWindows |->
        LET window == ScipyWindows[w]
        IN PivotsAt(series, argrelextrema(series, TRUE, window), "high",
                    <<"scipy", window>>, 6 * window)
           \o PivotsAt(series, argrelextrema(series, FALSE, window), "low",
                       <<"scipy", window>>, 6 * window)])

\* line 63 (maximum TRUE) and line 64 (FALSE): the bars equal to the rolling
\* extreme of their window
RollingExtremes(series, maximum, window) ==
    LET \* rolling(window=window, center=True): the window labelled i spans the bars
        \* i + offset - window + 1 .. i + offset with offset = (window - 1) // 2, and
        \* the value is NaN unless all of them exist
        RollingWindow(i, size) ==
            LET offset == (size - 1) \div 2
            IN (i + offset - size + 1)..(i + offset)
    IN
    {i \in 0..(Len(series) - 1) :
        /\ RollingWindow(i, window) \subseteq 0..(Len(series) - 1)
        /\ \A j \in RollingWindow(i, window) :
              IF maximum THEN BarAt(series, j) <= BarAt(series, i)
              ELSE BarAt(series, j) >= BarAt(series, i)}

RollingWindows == <<3, 5, 7, 10, 15, 20>>

\* lines 53-88
rolling_pivots(series) ==
    LET \* lines 66 and 78: 0 < idx < len(log_prices) - 1
        InnerBars(idxs, n) == {idx \in idxs : 0 < idx /\ idx < n - 1}
    IN
    Flatten([w \in DOMAIN RollingWindows |->
        LET window == RollingWindows[w]
        IN PivotsAt(series,
                    InnerBars(RollingExtremes(series, TRUE, window), Len(series)),
                    "high", <<"rolling", window>>, 2 * window)
           \o PivotsAt(series,
                       InnerBars(RollingExtremes(series, FALSE, window), Len(series)),
                       "low", <<"rolling", window>>, 2 * window)])

\* The loop of detect_zigzag_pivots_log (lines 296-337) from bar i on; z holds
\* last_pivot_idx, last_pivot_log_price, direction and the pivots so far.
\* A pivot is listed with the bar i at which it is appended ('reversal').
RECURSIVE zigzag_scan(_, _, _)
zigzag_scan(series, i, z) ==
    LET \* pct_change > np.log(1 + threshold), pct_change in price units
        MovedUp(pct_change) == pct_change >= 1
        \* pct_change < np.log(1 - threshold)
        MovedDown(pct_change) == pct_change <= -1
    IN
    IF i > Len(series) - 1 THEN z.pivots
    ELSE LET log_price == BarAt(series, i)
             pct_change == log_price - z.last_pivot_log_price
             turn(type, direction) ==
                 [last_pivot_idx |-> i,
                  last_pivot_log_price |-> log_price,
                  direction |-> direction,
                  pivots |-> Append(z.pivots,
                                    [index |-> z.last_pivot_idx, type |-> type,
                                     reversal |-> i])]
             extend == [z EXCEPT !.last_pivot_idx = i,
                                 !.last_pivot_log_price = log_price]
         IN zigzag_scan(series, i + 1,
                CASE z.direction = "none" ->
                         IF MovedUp(pct_change) THEN [z EXCEPT !.direction = "up"]
                         ELSE IF MovedDown(pct_change)
                         THEN [z EXCEPT !.direction = "down"]
                         ELSE z
                  [] z.direction = "up" ->
                         IF MovedDown(pct_change) THEN turn("high", "down")
                         ELSE IF log_price > z.last_pivot_log_price THEN extend
                         ELSE z
                  [] z.direction = "down" ->
                         IF MovedUp(pct_change) THEN turn("low", "up")
                         ELSE IF log_price < z.last_pivot_log_price THEN extend
                         ELSE z)

\* detect_zigzag_pivots_log: the (index, type, reversal) of its pivots, in
\* order
detect_zigzag_pivots_log(series) ==
    IF Len(series) < 3 THEN <<>>
    ELSE zigzag_scan(series, 1,
             [last_pivot_idx |-> 0, last_pivot_log_price |-> BarAt(series, 0),
              direction |-> "none", pivots |-> <<>>])

\* lines 91-100: every threshold gives the same turns on this price grid
zigzag_pivots(series) ==
    LET \* 1 / threshold, in sixths, for the thresholds 0.01, 0.015, 0.02, 0.03,
        \* 0.05 and 0.08 in per mille
        ZigzagThresholds == <<10, 15, 20, 30, 50, 80>>
    IN
    Flatten([t \in DOMAIN ZigzagThresholds |->
        LET found == detect_zigzag_pivots_log(series)
        IN [k \in DOMAIN found |->
               PivotRecord(series, found[k].index, found[k].type,
                           <<"zigzag", ZigzagThresholds[t]>>,
                           6000 \div ZigzagThresholds[t])]])

\* detect_fractal_pivots_log with lookback = 2 (lines 151-188)
detect_fractal_pivots_log(series) ==
    LET lookback == 2
        around(i) == ((i - lookback)..(i + lookback)) \ {i}
        is_fractal_high(i) ==
            \A j \in around(i) : BarAt(series, j) < BarAt(series, i)
        is_fractal_low(i) ==
            \A j \in around(i) : BarAt(series, j) > BarAt(series, i)
        inner == SetToSeq(lookback..(Len(series) - lookback - 1))
    IN Flatten([k \in DOMAIN inner |->
           (IF is_fractal_high(inner[k])
            THEN <<PivotRecord(series, inner[k], "high", <<"fractal", 0>>, 18)>>
            ELSE <<>>)
           \o (IF is_fractal_low(inner[k])
               THEN <<PivotRecord(series, inner[k], "low", <<"fractal", 0>>, 18)>>
               ELSE <<>>)])

\* detect_slope_change_pivots_log with window = 3 (lines 191-230); slopes are
\* held times 3, only their signs are used
detect_slope_change_pivots_log(series) ==
    LET window == 3
        slope(i) == BarAt(series, i + window) - BarAt(series, i)
        len_slopes == IF Len(series) > window THEN Len(series) - window ELSE 0
        inner == SetToSeq(1..(len_slopes - 2))
        pivot_idx(i) == i + (window \div 2)
    IN Flatten([k \in DOMAIN inner |->
           LET i == inner[k]
           IN IF slope(i - 1) > 0 /\ slope(i) < 0
              THEN <<PivotRecord(series, pivot_idx(i), "high", <<"slope", 0>>, 12)>>
              ELSE IF slope(i - 1) < 0 /\ slope(i) > 0
              THEN <<PivotRecord(series, pivot_idx(i), "low", <<"slope", 0>>, 12)>>
              ELSE <<>>])

\* detect_derivative_pivots_log (lines 233-282) on two or more bars
detect_derivative_pivots_log(series) ==
    LET \* np.gradient(f) times 2 for a sequence f of two or more numbers: central
        \* differences inside, one-sided differences at the two ends
        Gradient2(f) ==
            [k \in DOMAIN f |->
                IF k = 1 THEN 2 * (f[2] - f[1])
                ELSE IF k = Len(f) THEN 2 * (f[k] - f[k - 1])
                ELSE f[k + 1] - f[k - 1]]
        \* abs(second_deriv[i]) > np.std(second_deriv) * 2, on 4 * second_deriv:
        \* x^2 > 4 (sum(d^2) / n - (sum(d) / n)^2)
        SignificantCurvature(d, k) ==
            LET n == Len(d)
                squares == [m \in DOMAIN d |-> d[m] * d[m]]
            IN n * n * d[k] * d[k] > 4 * (n * SumSeq(squares) - SumSeq(d) * SumSeq(d))
    IN
    LET first_deriv == Gradient2(series)
        second_deriv == Gradient2(first_deriv)
        inner == SetToSeq(1..(Len(series) - 2))
        here(i, type) == <<PivotRecord(series, i, type, <<"derivative", 0>>, 9)>>
    IN Flatten([k \in DOMAIN inner |->
           LET i == inner[k]
           IN (IF first_deriv[i] > 0 /\ first_deriv[i + 2] < 0
               THEN here(i, "high")
               ELSE IF first_deriv[i] < 0 /\ first_deriv[i + 2] > 0
               THEN here(i, "low")
               ELSE <<>>)
              \o (IF SignificantCurvature(second_deriv, i + 1)
                  THEN IF second_deriv[i + 1] < 0 THEN here(i, "high")
                       ELSE IF second_deriv[i + 1] > 0 THEN here(i, "low")
                       ELSE <<>>
                  ELSE <<>>)])

(***************************************************************************)
(* detect_pivot_points_ultra_log as a state machine                        *)
(***************************************************************************)
BarSeries ==
    LET BarPrices == 0..2
    IN  UNION {[1..n -> BarPrices] : n \in 0..MaxBars}

DetectInit ==
    /\ dpc = "start"
    /\ bars \in BarSeries
    /\ methods \in SUBSET Methods
    /\ detected = <<>>
    /\ CloudIdle
    /\ SelectIdle
    /\ PivotIdle

\* line 21: log_prices.min() of an empty array raises ValueError
RaiseOnEmptyInput ==
    /\ dpc = "start"
    /\ bars = <<>>
    /\ dpc' = "raised"
    /\ UNCHANGED <<bars, methods, detected, cloudVars, selectVars, pivotVars>>

\* lines 14-50
ScipyMethod ==
    /\ dpc = "start"
    /\ bars # <<>>
    /\ all_pivots' = IF "scipy" \in methods THEN scipy_pivots(bars) ELSE <<>>
    /\ dpc' = "rolling"
    /\ UNCHANGED <<bars, methods, detected, ppc, combined, scan,
                   cloudVars, selectVars>>

\* lines 53-88
RollingMethod ==
    /\ dpc = "rolling"
    /\ all_pivots' = IF "rolling" \in methods
                     THEN all_pivots \o rolling_pivots(bars)
                     ELSE all_pivots
    /\ dpc' = "zigzag"
    /\ UNCHANGED <<bars, methods, detected, ppc, combined, scan,
                   cloudVars, selectVars>>

\* lines 91-100
ZigzagMethod ==
    /\ dpc = "zigzag"
    /\ all_pivots' = IF "zigzag" \in methods
                     THEN all_pivots \o zigzag_pivots(bars)
                     ELSE all_pivots
    /\ dpc' = "fractal"
    /\ UNCHANGED <<bars, methods, detected, ppc, combined, scan,
                   cloudVars, selectVars>>

\* lines 103-112
FractalMethod ==
    /\ dpc = "fractal"
    /\ all_pivots' = IF "fractal" \in methods
                     THEN all_pivots \o detect_fractal_pivots_log(bars)
                     ELSE all_pivots
    /\ dpc' = "slope"
    /\ UNCHANGED <<bars, methods, detected, ppc, combined, scan,
                   cloudVars, selectVars>>

\* lines 115-124
SlopeMethod ==
    /\ dpc = "slope"
    /\ all_pivots' = IF "slope" \in methods
                     THEN all_pivots \o detect_slope_change_pivots_log(bars)
                     ELSE all_pivots
    /\ dpc' = "derivative"
    /\ UNCHANGED <<bars, methods, detected, ppc, combined, scan,
                   cloudVars, selectVars>>

\* lines 127-136; np.gradient raises ValueError on fewer than 2 values
DerivativeMethod ==
    /\ dpc = "derivative"
    /\ IF "derivative" \in methods /\ Len(bars) < 2
       THEN /\ dpc' = "raised"
            /\ UNCHANGED all_pivots
       ELSE /\ all_pivots' = IF "derivative" \in methods
                             THEN all_pivots \o detect_derivative_pivots_log(bars)
                             ELSE all_pivots
            /\ dpc' = "pooled"
    /\ UNCHANGED <<bars, methods, detected, ppc, combined, scan,
                   cloudVars, selectVars>>

\* line 145 with all_pivots empty: all_pivots is returned
ReturnNoneFound ==
    /\ dpc = "pooled"
    /\ all_pivots = <<>>
    /\ detected' = all_pivots
    /\ dpc' = "returned"
    /\ UNCHANGED <<bars, methods, pivotVars, cloudVars, selectVars>>

\* lines 140-141: combine_overlapping_pivots(all_pivots, proximity_threshold=3)
CallCombine ==
    /\ dpc = "pooled"
    /\ all_pivots # <<>>
    /\ ppc = "idle"
    /\ ppc' = "start"
    /\ dpc' = "combining"
    /\ UNCHANGED <<bars, methods, detected, all_pivots, combined, scan,
                   cloudVars, selectVars>>

\* lines 142-143
ReturnCombinedPivots ==
    /\ dpc = "combining"
    /\ ppc = "done"
    /\ detected' = combined
    /\ dpc' = "returned"
    /\ UNCHANGED <<bars, methods, pivotVars, cloudVars, selectVars>>

DetectNext ==
    \/ RaiseOnEmptyInput
    \/ ScipyMethod
    \/ RollingMethod
    \/ ZigzagMethod
    \/ FractalMethod
    \/ SlopeMethod
    \/ DerivativeMethod
    \/ ReturnNoneFound
    \/ CallCombine
    \/ SortPivots
    \/ CombineGroup
    \/ ReturnCombined
    \/ ReturnCombinedPivots

SpecDetect == DetectInit /\ [][DetectNext]_vars

(***************************************************************************)
(* The pipeline pivot detection -> trendline selection, as                 *)
(* TrendlineExtractor runs it (trendline_extractor.py, detect_pivots then  *)
(* detect_trendlines).  Bars are one half-life apart and the last bar is   *)
(* at LastBar, the reference date of the time weights.                     *)
(***************************************************************************)
PipelineInit ==
    LET PipelineMethods == {{"scipy", "rolling", "zigzag", "fractal"}, Methods}
    IN
    /\ dpc = "start"
    /\ bars \in BarSeries
    /\ methods \in PipelineMethods
    /\ detected = <<>>
    /\ CloudIdle
    /\ SelectIdle
    /\ PivotIdle

\* trendline_extractor.py, lines 91-120: the detected pivots go to one of the
\* two selectors
HandOverPivots ==
    LET \* The pivot dicts as the selector reads them: 'date' is the date of bar
        \* 'index', 'log_price' is counted in log_tolerance.
        SelectorPivots(found, n) ==
            [k \in DOMAIN found |->
                [date |-> LastBar - (n - 1) + found[k].index,
                 log_price |-> 5 * (found[k].log_price \div BarStep)] @@ found[k]]
    IN
    /\ dpc = "returned"
    /\ spc = "idle"
    /\ dpc' = "selecting"
    /\ spc' = "start"
    /\ pivots' = SelectorPivots(detected, Len(bars))
    /\ time_weighted' \in BOOLEAN
    /\ max_lines' \in {2, 4}
    /\ min_weight' = IF time_weighted' THEN Rat(1, 4) ELSE <<>>
    /\ linregress_raises' \in (IF time_weighted' THEN {FALSE} ELSE BOOLEAN)
    /\ UNCHANGED <<weighted_pivots, all_pairs, pair_pos, used_trendline_pairs,
                   found_trendlines, top_trendlines, current_points, iteration,
                   result, bars, methods, detected, cloudVars, pivotVars>>

PipelineNext ==
    \/ RaiseOnEmptyInput
    \/ ScipyMethod
    \/ RollingMethod
    \/ ZigzagMethod
    \/ FractalMethod
    \/ SlopeMethod
    \/ DerivativeMethod
    \/ ReturnNoneFound
    \/ CallCombine
    \/ SortPivots
    \/ CombineGroup
    \/ ReturnCombined
    \/ ReturnCombinedPivots
    \/ HandOverPivots
    \/ CreatePairs
    \/ SkipUsedPair
    \/ CallRefiner
    \/ RefineIterate
    \/ RefinerReturns
    \/ AcceptTrendline
    \/ SortAndReturn

SpecPipeline == PipelineInit /\ [][PipelineNext]_vars

(***************************************************************************)
(* Claims about detect_pivot_points_ultra_log and the pipeline             *)
(***************************************************************************)
\* C14: for a perfectly flat bar series the pipeline pivot detection ->
\* trendline selection records and returns no trendline, and nothing is
\* raised on the way.
C14_FlatSeriesNoTrendlines ==
    LET \* two or more bars, all of the same price
        FlatSeries == Len(bars) >= 2 /\ \A i, j \in DOMAIN bars : bars[i] = bars[j]
    IN
    FlatSeries =>
        /\ dpc # "raised"
        /\ spc # "raised"
        /\ found_trendlines = <<>>
        /\ top_trendlines = <<>>

\* C15: detect_pivot_points_ultra_log returns an empty pivot list whenever
\* the input has fewer than 2 x the largest detection window bars, the empty
\* input included, for every set of enabled methods.
C15_ShortInputNoPivots ==
    LET \* the largest detection window: 20 bars, the last rolling window
        LargestWindow == RollingWindows[Len(RollingWindows)]
    IN
    Len(bars) < 2 * LargestWindow =>
        /\ dpc # "raised"
        /\ detected = <<>>

\* C26: every pivot emitted by the zigzag detector is the extreme of its
\* leg: a high pivot's log_price is at least the log_price of every bar
\* from the bar at which the previous pivot was appended (the series start
\* for the first pivot) up to the bar at which it is appended itself, and a
\* low pivot's log_price is at most all of them.
C26_ZigzagPivotIsLegExtreme ==
    (dpc = "fractal" /\ "zigzag" \in methods) =>
        LET found == detect_zigzag_pivots_log(bars)
        IN \A k \in DOMAIN found :
               \A p \in Range(all_pivots) :
                   (/\ p.method[1] = "zigzag"
                    /\ p.index = found[k].index
                    /\ p.type = found[k].type)
                   => \A b \in (IF k = 1 THEN 0 ELSE found[k - 1].reversal)
                                    .. found[k].reversal :
                          IF p.type = "high"
                          THEN p.log_price >= BarStep * BarAt(bars, b)
                          ELSE p.log_price <= BarStep * BarAt(bars, b)

(***************************************************************************)
(* detect_trend_clouds with the constructor's default min_trendlines       *)
(***************************************************************************)
MaxFlatTrendlines == 4  \* longest list of flat trendlines

\* TrendCloudDetector.__init__ defaults: min_trendlines 3, temperature 2;
\* trendlines of zero slope and equal strength.
CloudDefaultInit ==
    /\ cpc = "start"
    /\ trendlines \in UNION {[1..n -> [price_now : 8..12, growth : {1},
                                       weighted_strength : {1}]] :
                                n \in 0..MaxFlatTrendlines}
    /\ current_price = 10
    /\ cfg \in [projection_days : {2},
                convergence_tolerance : {1},
                merge_threshold : {1, 2},
                min_trendlines : {3},
                max_clouds : {1, 3},
                temperature : {2}]
    /\ trendline_projections = <<>>
    /\ initial_zones = <<>>
    /\ convergence_zones = <<>>
    /\ final_clouds = <<>>
    /\ SelectIdle
    /\ PivotIdle
    /\ DetectIdle

SpecCloudDefault == CloudDefaultInit /\ [][CloudNext]_vars

\* C22: an initial zone built around a seed projection holds every
\* projection that was not consumed by a zone accepted before it, comes from
\* a trendline other than the seed's and lies within convergence_tolerance
\* of the seed's price.
C22_ZoneHoldsAllNearSeed ==
    cpc = "zoned" =>
        \A z \in DOMAIN initial_zones :
            LET seed == initial_zones[z].projections[1]
                consumed == UNION {Range(initial_zones[y].projections) :
                                       y \in 1..(z - 1)}
            IN \A k \in DOMAIN trendline_projections :
                   LET p == trendline_projections[k]
                   IN (/\ p \notin consumed
                       /\ p.trendline_idx # seed.trendline_idx
                       /\ Abs(p.projected_price - seed.projected_price)
                              <= cfg.convergence_tolerance)
                      => p \in Range(initial_zones[z].projections)

====
